---- MODULE Spec2Model ----
(***************************************************************************)
(* The AdCP registry server: the Property Index (property-types.ts), the    *)
(* CrawlerService (crawler.ts), the AgentValidator with its TTL cache      *)
(* (validator.ts, cache.ts) and the PublisherTracker (publishers.ts).      *)
(***************************************************************************)
EXTENDS Integers, Sequences, FiniteSets, TLC

VARIABLES
    agentProperties,   \* PropertyIndex.agentProperties : Map<agentUrl, property[]>
    propertyToAgents,  \* PropertyIndex.propertyToAgents : Map<key, Set<agentUrl>>
    indexCall,         \* the latest call made on the PropertyIndex from outside a crawl
    crawling,          \* CrawlerService.crawling
    lastCrawl,         \* CrawlerService.lastCrawl (NoDate or a time)
    lastResult,        \* CrawlerService.lastResult (NoResult or a CrawlResult)
    intervalId,        \* CrawlerService.intervalId (NoTimer or a timer handle)
    timers,            \* the runtime's live setInterval timers: handle -> agents
    created,           \* number of timer handles setInterval has handed out
    inflight,          \* pending crawler.crawlAgents invocations, oldest first
    outcome,           \* the latest call or return of crawlAllAgents
    now,               \* the wall clock read by new Date() and Date.now()
    valCache,          \* AgentValidator.cache : Cache<ValidationResult>.cache
    valFetches,        \* validate calls awaiting their fetch, oldest first
    valOutcome,        \* the latest return of AgentValidator.validate
    pubCache,          \* PublisherTracker.cache : Map<domain, PublisherStatus>
    pubFetches,        \* checkPublisher calls awaiting their fetch, oldest first
    pubOutcome,        \* the latest return of PublisherTracker.checkPublisher
    tracking,          \* the pending PublisherTracker.trackPublishers, or NoBatch
    cacheEntries,      \* Cache.cache of a Cache used on its own
    cacheResult,       \* the latest call of that Cache and what it returned
    formatsCache,      \* FormatsService.cache : Map<agentUrl, AgentFormatsProfile>
    formatsCalls,      \* getFormatsForAgent calls awaiting executeTask, oldest first
    formatsOutcome,    \* the latest return of FormatsService.getFormatsForAgent
    registry,          \* Registry.agents : Map<key, Agent>, in insertion order
    listed,            \* the latest Registry.listAgents call and what it returned
    statsCache,        \* HealthChecker.statsCache : Cache<AgentStats>.cache
    statsOutcome       \* the latest return of HealthChecker.getStats

indexVars == <<agentProperties, propertyToAgents, indexCall>>
crawlerVars == <<crawling, lastCrawl, lastResult, intervalId, timers, created,
                 inflight, outcome, now>>
validatorVars == <<valCache, valFetches, valOutcome>>
trackerVars == <<pubCache, pubFetches, pubOutcome, tracking>>
cacheVars == <<cacheEntries, cacheResult>>
formatsVars == <<formatsCache, formatsCalls, formatsOutcome>>
registryVars == <<registry, listed>>
healthVars == <<statsCache, statsOutcome>>
serviceVars == <<validatorVars, trackerVars, cacheVars, formatsVars, registryVars,
                 healthVars>>
vars == <<agentProperties, propertyToAgents, indexCall, crawling, lastCrawl, lastResult,
          intervalId, timers, created, inflight, outcome, now,
          valCache, valFetches, valOutcome, pubCache, pubFetches, pubOutcome,
          tracking, cacheEntries, cacheResult, formatsCache, formatsCalls,
          formatsOutcome, registry, listed, statsCache, statsOutcome>>

\* the nulls of the crawler's fields, one per type
Null == "null"
NoResult == [null |-> TRUE]   \* lastResult: CrawlResult | null
NoTimer == 0                  \* intervalId: NodeJS.Timeout | null
NoDate == -1                  \* lastCrawl: Date | null

(***************************************************************************)
(* Bounds of the model.                                                    *)
(***************************************************************************)
MaxProps == 2      \* longest property list an agent claims
MaxTimers == 2     \* setInterval handles handed out in one run
MaxInFlight == 2   \* pending crawlAgents invocations the model tracks
MaxTime == 1       \* last clock value

(***************************************************************************)
(* Data: agents, properties and their identifiers.                         *)
(***************************************************************************)
Agents == {"https://a1.example", "https://a2.example"}

Identifier(t, v) == [type |-> t, value |-> v]

\* identifiers whose "<type>:<value>" keys coincide: app + ios:1, app:ios + 1
IdDomain == Identifier("domain", "x.com")
IdApp == Identifier("app", "ios:1")
IdAppIos == Identifier("app:ios", "1")
IdUnclaimed == Identifier("domain", "y.com")

Identifiers == {IdDomain, IdApp, IdAppIos, IdUnclaimed}

PropSite ==
    [name |-> "site", identifiers |-> <<IdDomain, IdApp>>, publisher_domain |-> "x.com"]
PropApp ==
    [name |-> "app", identifiers |-> <<IdAppIos>>, publisher_domain |-> "x.com"]
PropBare ==
    [name |-> "bare", identifiers |-> <<>>, publisher_domain |-> "y.com"]

Properties == {PropSite, PropApp, PropBare}

\* the property lists an agent may claim: distinct properties, in any order
PropLists ==
    {list \in UNION {[1..n -> Properties] : n \in 0..MaxProps} :
        \A i, j \in 1..Len(list) : list[i] = list[j] => i = j}

Range(s) == {s[i] : i \in 1..Len(s)}

(***************************************************************************)
(* PropertyIndex (property-types.ts).                                      *)
(***************************************************************************)
\* `${identifier.type}:${identifier.value}`
Key(type, value) == type \o ":" \o value

\* Set.prototype.add on a Set kept in insertion order
SetAdd(set, x) == IF x \in Range(set) THEN set ELSE Append(set, x)

\* the variant in which the key's Set holds the latest agent only
IndexIdentifierLatestOnly(rev, identifier, agentUrl) ==
    LET key == Key(identifier.type, identifier.value)
        withKey == IF key \in DOMAIN rev THEN rev ELSE rev @@ (key :> <<>>)
    IN [withKey EXCEPT ![key] = <<agentUrl>>]

\* one pass of the inner loop body: create the key's Set if absent, add the agent
IndexIdentifier(rev, identifier, agentUrl) ==
    LET key == Key(identifier.type, identifier.value)
        withKey == IF key \in DOMAIN rev THEN rev ELSE rev @@ (key :> <<>>)
    IN [withKey EXCEPT ![key] = SetAdd(@, agentUrl)]

RECURSIVE IndexIdentifiers(_, _, _)
IndexIdentifiers(rev, identifiers, agentUrl) ==
    IF identifiers = <<>> THEN rev
    ELSE IndexIdentifiers(IndexIdentifier(rev, Head(identifiers), agentUrl),
                          Tail(identifiers), agentUrl)

RECURSIVE IndexProperties(_, _, _)
IndexProperties(rev, properties, agentUrl) ==
    IF properties = <<>> THEN rev
    ELSE IndexProperties(IndexIdentifiers(rev, Head(properties).identifiers, agentUrl),
                         Tail(properties), agentUrl)

EmptyMap == [k \in {} |-> <<>>]

\* the variant of clear() that clears the forward map only
ClearedForwardOnly(fwd, rev) == [agentProperties |-> EmptyMap, propertyToAgents |-> rev]

\* clear(): this.agentProperties.clear(); this.propertyToAgents.clear()
ClearedReverseOnly(fwd, rev) == [agentProperties |-> fwd, propertyToAgents |-> EmptyMap]

ClearedIndex(fwd, rev) == [agentProperties |-> EmptyMap, propertyToAgents |-> EmptyMap]

\* this.agentProperties.set(agentUrl, properties)
SetMergingClaims(fwd, agentUrl, properties) ==
    IF agentUrl \in DOMAIN fwd
    THEN [fwd EXCEPT ![agentUrl] = @ \o properties]
    ELSE fwd @@ (agentUrl :> properties)

\* the variant that stores only the properties that carry an identifier
SetClaimsWithIdentifiers(fwd, agentUrl, properties) ==
    LET kept == SelectSeq(properties, LAMBDA prop : prop.identifiers # <<>>)
    IN IF agentUrl \in DOMAIN fwd
       THEN [fwd EXCEPT ![agentUrl] = kept]
       ELSE fwd @@ (agentUrl :> kept)

SetAgentClaims(fwd, agentUrl, properties) ==
    IF agentUrl \in DOMAIN fwd
    THEN [fwd EXCEPT ![agentUrl] = properties]
    ELSE fwd @@ (agentUrl :> properties)

\* addAgentProperties as a function of the two maps
addAgentProperties(fwd, rev, agentUrl, properties) ==
    [agentProperties |-> SetAgentClaims(fwd, agentUrl, properties),
     propertyToAgents |-> IndexProperties(rev, properties, agentUrl)]

\* prop.identifiers?.some(id => id.type === propertyType && id.value === propertyValue)
HasAnyIdentifier(prop, propertyType, propertyValue) == prop.identifiers # <<>>

hasIdentifier(prop, propertyType, propertyValue) ==
    \E i \in 1..Len(prop.identifiers) :
        /\ prop.identifiers[i].type = propertyType
        /\ prop.identifiers[i].value = propertyValue

\* the matches one agent contributes, in the order of its property list
RECURSIVE MatchesOfAgent(_, _, _, _)
MatchesOfAgent(agentUrl, properties, propertyType, propertyValue) ==
    IF properties = <<>> THEN <<>>
    ELSE (IF hasIdentifier(Head(properties), propertyType, propertyValue)
          THEN << [property |-> Head(properties), agent_url |-> agentUrl,
                   publisher_domain |-> Head(properties).publisher_domain] >>
          ELSE <<>>)
         \o MatchesOfAgent(agentUrl, Tail(properties), propertyType, propertyValue)

RECURSIVE MatchesOfAgents(_, _, _, _)
MatchesOfAgents(fwd, agentUrls, propertyType, propertyValue) ==
    IF agentUrls = <<>> THEN <<>>
    ELSE LET agentUrl == Head(agentUrls)
             properties == IF agentUrl \in DOMAIN fwd THEN fwd[agentUrl] ELSE <<>>
         IN MatchesOfAgent(agentUrl, properties, propertyType, propertyValue)
            \o MatchesOfAgents(fwd, Tail(agentUrls), propertyType, propertyValue)

findAgentsForProperty(propertyType, propertyValue) ==
    LET key == Key(propertyType, propertyValue)
        agentUrls == IF key \in DOMAIN propertyToAgents
                     THEN propertyToAgents[key] ELSE <<>>
    IN MatchesOfAgents(agentProperties, agentUrls, propertyType, propertyValue)

getAgentAuthorizations(agentUrl) ==
    [agent_url |-> agentUrl,
     properties |-> IF agentUrl \in DOMAIN agentProperties
                    THEN agentProperties[agentUrl] ELSE <<>>]

RECURSIVE SumOfLengths(_, _)
\* Array.from(values).reduce((sum, props) => sum + props.length, 0)
SumOfLengths(fwd, agentUrls) ==
    IF agentUrls = {} THEN 0
    ELSE LET agentUrl == CHOOSE a \in agentUrls : TRUE
         IN Len(fwd[agentUrl]) + SumOfLengths(fwd, agentUrls \ {agentUrl})

\* getStats as a function of the two maps
getStats(fwd, rev) ==
    [totalAgents |-> Cardinality(DOMAIN fwd),
     totalProperties |-> SumOfLengths(fwd, DOMAIN fwd),
     totalIdentifiers |-> Cardinality(DOMAIN rev)]

\* PropertyIndex.addAgentProperties
AddAgentProperties(agentUrl, properties) ==
    LET idx == addAgentProperties(agentProperties, propertyToAgents, agentUrl, properties)
    IN /\ agentProperties' = idx.agentProperties
       /\ propertyToAgents' = idx.propertyToAgents
       /\ indexCall' = "addAgentProperties"
       /\ UNCHANGED <<crawlerVars, serviceVars>>

\* PropertyIndex.clear
Clear ==
    /\ agentProperties' = ClearedIndex(agentProperties, propertyToAgents).agentProperties
    /\ propertyToAgents' = ClearedIndex(agentProperties, propertyToAgents).propertyToAgents
    /\ indexCall' = "clear"
    /\ UNCHANGED <<crawlerVars, serviceVars>>

(***************************************************************************)
(* CrawlerService (crawler.ts) and the crawl it delegates to.              *)
(***************************************************************************)
\* the agent lists handed to crawlAllAgents, and the one the server schedules
Fleets == {<<>>, <<"https://a1.example">>,
           <<"https://a1.example", "https://a2.example">>}
PeriodicFleets == {<<"https://a1.example", "https://a2.example">>}

\* new URL(url).hostname, for the URLs of the model
extractDomain(url) ==
    CASE url = "https://a1.example" -> "a1.example"
      [] url = "https://a2.example" -> "a2.example"
      [] OTHER -> url

\* agents.map(agent => ({agent_url, protocol, publisher_domain}))
AgentInfos(agents) ==
    [i \in 1..Len(agents) |->
        [agent_url |-> agents[i], protocol |-> "mcp",
         publisher_domain |-> extractDomain(agents[i])]]

emptyResult ==
    [totalProperties |-> 0, totalPublisherDomains |-> 0, successfulAgents |-> 0,
     failedAgents |-> 0, errors |-> <<>>, warnings |-> <<>>]

\* what one agent answers to the crawl's query
ReplyLists == {<<PropSite>>, <<PropApp, PropBare>>}
AgentReplies ==
    [ok : {TRUE}, properties : ReplyLists, error : {Null}]
        \cup [ok : {FALSE}, properties : {<<>>}, error : {"timeout"}]

\* if (this.crawling)
NeverCrawling == FALSE

AlreadyCrawling == crawling

\* return this.lastResult || this.emptyResult()
SkipReturnsEmpty == emptyResult

\* the variant that hands out the counts of the sweep in flight
SkipReturnsRunning ==
    IF lastResult # NoResult THEN lastResult
    ELSE IF inflight # <<>>
    THEN [emptyResult EXCEPT !.totalProperties = inflight[1].result.totalProperties,
                             !.successfulAgents = inflight[1].result.successfulAgents,
                             !.failedAgents = inflight[1].result.failedAgents]
    ELSE emptyResult

SkipReturn == IF lastResult # NoResult THEN lastResult ELSE emptyResult

\* the index as crawlAgents leaves it before its first query: cleared
IndexAtStart == ClearedIndex(agentProperties, propertyToAgents)

\* the result crawlAgents starts from
NewResult ==
    [totalProperties |-> 0, successfulAgents |-> 0, failedAgents |-> 0, errors |-> <<>>]

\* one agent's outcome folded into the sweep's result
TallyDroppingFailure(result, agentUrl, reply) ==
    IF reply.ok
    THEN [result EXCEPT !.totalProperties = @ + Len(reply.properties),
                        !.successfulAgents = @ + 1]
    ELSE result

Tally(result, agentUrl, reply) ==
    IF reply.ok
    THEN [result EXCEPT !.totalProperties = @ + Len(reply.properties),
                        !.successfulAgents = @ + 1]
    ELSE [result EXCEPT !.failedAgents = @ + 1,
                        !.errors = Append(@, [agent_url |-> agentUrl,
                                              error |-> reply.error])]

\* the index after one agent's outcome: a success installs, a failure touches nothing
Installed(fwd, rev, agentUrl, reply) ==
    IF reply.ok
    THEN addAgentProperties(fwd, rev, agentUrl, reply.properties)
    ELSE [agentProperties |-> fwd, propertyToAgents |-> rev]

\* this.lastCrawl = new Date(); this.lastResult = result; this.crawling = false
AfterCrawlStillCrawling(result) ==
    [lastCrawl |-> now, lastResult |-> result, crawling |-> crawling]

AfterCrawl(result) == [lastCrawl |-> now, lastResult |-> result, crawling |-> FALSE]

\* the latest event at the boundary of crawlAllAgents: a call (by whom, skipped or
\* left pending) or the settling of the pending call, with the value handed back
Outcome(how, by, value) == [how |-> how, by |-> by, value |-> value]

RemoveAt(seq, i) == SubSeq(seq, 1, i - 1) \o SubSeq(seq, i + 1, Len(seq))

\* crawlAllAgents up to its await: the guard, or the start of a sweep
crawlAllAgents(agents, by) ==
    \/ /\ AlreadyCrawling
       /\ outcome' = Outcome("skipped", by, SkipReturn)
       /\ UNCHANGED <<crawling, lastCrawl, lastResult, inflight, indexVars>>
    \/ /\ ~AlreadyCrawling
       /\ Len(inflight) < MaxInFlight
       /\ crawling' = TRUE
       /\ inflight' = Append(inflight,
              [agents |-> agents,
               agentInfos |-> AgentInfos(agents),
               pending |-> Range(agents), result |-> NewResult])
       /\ agentProperties' = IndexAtStart.agentProperties
       /\ propertyToAgents' = IndexAtStart.propertyToAgents
       /\ UNCHANGED indexCall
       /\ outcome' = Outcome("pending", by, NoResult)
       /\ UNCHANGED <<lastCrawl, lastResult>>

\* POST /api/crawl and the other direct callers
ManualCrawl(agents) ==
    /\ crawlAllAgents(agents, "manual")
    /\ UNCHANGED <<intervalId, timers, created, now, serviceVars>>

\* one agent's query settles inside a pending crawlAgents
AgentSettles(i, agentUrl, reply) ==
    /\ i \in 1..Len(inflight)
    /\ agentUrl \in inflight[i].pending
    /\ LET idx == Installed(agentProperties, propertyToAgents, agentUrl, reply)
       IN /\ agentProperties' = idx.agentProperties
          /\ propertyToAgents' = idx.propertyToAgents
          /\ UNCHANGED indexCall
    /\ inflight' = [inflight EXCEPT
                       ![i].pending = @ \ {agentUrl},
                       ![i].result = Tally(@, agentUrl, reply)]
    /\ UNCHANGED <<crawling, lastCrawl, lastResult, intervalId, timers, created,
                   outcome, now, serviceVars>>

\* await this.crawler.crawlAgents(agentInfos) resolves: the rest of the try block
SweepResolves(i) ==
    /\ i \in 1..Len(inflight)
    /\ inflight[i].pending = {}
    /\ LET result == inflight[i].result
           after == AfterCrawl(result)
       IN /\ lastCrawl' = after.lastCrawl
          /\ lastResult' = after.lastResult
          /\ crawling' = after.crawling
          /\ outcome' = Outcome("resolved", Null, result)
    /\ inflight' = RemoveAt(inflight, i)
    /\ UNCHANGED <<indexVars, intervalId, timers, created, now, serviceVars>>

\* the variant of the catch block that leaves the guard set
AfterFailureStillCrawling ==
    [lastCrawl |-> lastCrawl, lastResult |-> lastResult, crawling |-> crawling]

\* the catch block: this.crawling = false; throw error
AfterFailure == [lastCrawl |-> lastCrawl, lastResult |-> lastResult, crawling |-> FALSE]

\* await this.crawler.crawlAgents(agentInfos) rejects: the catch block
SweepRejects(i) ==
    /\ i \in 1..Len(inflight)
    /\ crawling' = AfterFailure.crawling
    /\ outcome' = Outcome("rejected", Null, NoResult)
    /\ inflight' = RemoveAt(inflight, i)
    /\ UNCHANGED <<indexVars, lastCrawl, lastResult, intervalId, timers, created, now,
                   serviceVars>>

StartPeriodicCrawl(agents) ==
    /\ created < MaxTimers
    /\ crawlAllAgents(agents, "start")
    /\ created' = created + 1
    /\ intervalId' = created + 1
    /\ timers' = timers @@ ((created + 1) :> agents)
    /\ UNCHANGED <<now, serviceVars>>

StopPeriodicCrawl ==
    /\ IF intervalId # NoTimer
       THEN /\ timers' = [h \in DOMAIN timers \ {intervalId} |-> timers[h]]
            /\ intervalId' = NoTimer
       ELSE UNCHANGED <<timers, intervalId>>
    /\ UNCHANGED <<indexVars, crawling, lastCrawl, lastResult, created, inflight,
                   outcome, now, serviceVars>>

\* a live interval timer fires its callback
TimerTick(h) ==
    /\ h \in DOMAIN timers
    /\ crawlAllAgents(timers[h], "tick")
    /\ UNCHANGED <<intervalId, timers, created, now, serviceVars>>

AdvanceClock ==
    /\ now < MaxTime
    /\ now' = now + 1
    /\ UNCHANGED <<indexVars, crawling, lastCrawl, lastResult, intervalId, timers,
                   created, inflight, outcome, serviceVars>>

(***************************************************************************)
(* Strings the validator and the tracker take apart are sequences of       *)
(* pieces: a scheme, a host, a slash.  A host piece holds no slash.        *)
(***************************************************************************)
\* String.replace(/^https?:\/\//, "")
stripProtocol(s) ==
    IF s # <<>> /\ Head(s) \in {"https://", "http://"} THEN Tail(s) ELSE s

RECURSIVE StripEveryTrailingSlash(_)
\* the variant that drops the whole run of trailing slashes
StripEveryTrailingSlash(s) ==
    IF s # <<>> /\ s[Len(s)] = "/"
    THEN StripEveryTrailingSlash(SubSeq(s, 1, Len(s) - 1)) ELSE s

\* String.replace(/\/$/, ""): one trailing slash, when there is one
stripTrailingSlash(s) ==
    IF s # <<>> /\ s[Len(s)] = "/" THEN SubSeq(s, 1, Len(s) - 1) ELSE s

\* the domains callers pass to validate and checkPublisher
DomainPlain == <<"x.com">>
DomainHttps == <<"https://", "x.com">>
DomainSlash == <<"x.com", "/">>
DomainUpper == <<"X.com">>
DomainArgs == {DomainPlain, DomainHttps, DomainSlash, DomainUpper}

\* the agent URLs callers pass, and the ones manifests list
UrlSales == <<"https://", "sales.example.com">>
UrlSalesSlash == <<"https://", "sales.example.com", "/">>
UrlSalesSlashes == <<"https://", "sales.example.com", "/", "/">>
UrlSalesUpper == <<"https://", "Sales.example.com">>
AgentArgs == {UrlSales, UrlSalesSlash}
ListedUrls == {UrlSales, UrlSalesSlash, UrlSalesSlashes, UrlSalesUpper}

(***************************************************************************)
(* What a publisher's server answers to the fetch of its adagents.json.    *)
(***************************************************************************)
MaxEntries == 2    \* longest authorized_agents array a manifest carries

\* one entry of authorized_agents: an object with a url, an object without
\* one, or a bare string (the old format)
EntryObj(u) == [kind |-> "object", url |-> u]
EntryNoUrl == [kind |-> "object-no-url", url |-> <<>>]
EntryStr(u) == [kind |-> "string", url |-> u]
Entries == {EntryObj(u) : u \in ListedUrls} \cup {EntryNoUrl, EntryStr(UrlSales)}

EntryLists == UNION {[1..n -> Entries] : n \in 0..MaxEntries}

\* the parsed body: JSON null, or an object whose authorized_agents is
\* absent (or falsy), a truthy non-array, or an array
Manifest(agentsKind, list, schema, properties, updated) ==
    [isNull |-> FALSE, agents |-> agentsKind, list |-> list, schema |-> schema,
     properties |-> properties, last_updated |-> updated]
JsonNull ==
    [isNull |-> TRUE, agents |-> "absent", list |-> <<>>, schema |-> FALSE,
     properties |-> "absent", last_updated |-> FALSE]

\* the errors fetch and response.json() reject with
Thrown(name, message) == [name |-> name, message |-> message]
ErrFetchFailed == Thrown("TypeError", "fetch failed")
ErrAbort == Thrown("AbortError", "This operation was aborted")
ErrTimeout == Thrown("TimeoutError", "The operation was aborted due to timeout")
ErrBadJson == Thrown("SyntaxError", "Unexpected token < in JSON at position 0")
ErrEmptyJson == Thrown("SyntaxError", "Unexpected end of JSON input")
ErrNoUrl == Thrown("TypeError", "Cannot read properties of undefined (reading 'replace')")
ErrNullBody == Thrown("TypeError", "Cannot read properties of null (reading 'authorized_agents')")
\* error.message.includes("Unexpected token")
HasUnexpectedToken(e) == e.message = ErrBadJson.message

NoBody == JsonNull
NoThrow == Thrown("", "")
\* fetch rejected
Rejected(e) == [kind |-> "rejected", status |-> 0, contentType |-> "", data |-> NoBody,
                thrown |-> e]
\* a response whose ok is false
HttpError(status) == [kind |-> "http", status |-> status, contentType |-> "text/html",
                      data |-> NoBody, thrown |-> NoThrow]
\* a 2xx response whose content-type is not JSON (or is missing)
NotJson(contentType) == [kind |-> "not-json", status |-> 200, contentType |-> contentType,
                         data |-> NoBody, thrown |-> NoThrow]
\* a 2xx JSON response whose body does not parse
Unparseable(e) == [kind |-> "unparseable", status |-> 200,
                   contentType |-> "application/json", data |-> NoBody, thrown |-> e]
\* a 2xx JSON response with a parsed body
Json(data) == [kind |-> "json", status |-> 200, contentType |-> "application/json",
               data |-> data, thrown |-> NoThrow]

FailedResponses ==
    {Rejected(ErrFetchFailed), Rejected(ErrAbort), Rejected(ErrTimeout),
     HttpError(404), HttpError(500), NotJson("text/html"), NotJson(""),
     Unparseable(ErrBadJson), Unparseable(ErrEmptyJson)}

(***************************************************************************)
(* AgentValidator (validator.ts) over Cache<ValidationResult> (cache.ts).  *)
(***************************************************************************)
MaxClock == 2      \* last clock value the validator and the tracker see
MaxPending == 2    \* calls awaiting their fetch at one time

\* Cache.ttlMs, in clock steps: one step of the clock is the 15 minute TTL
ttlMs == 1

NoError == ""      \* ValidationResult.error is absent
NoSource == <<>>   \* ValidationResult.source is absent

ValidationResult(authorized, domain, agentUrl, error, source) ==
    [authorized |-> authorized, domain |-> domain, agent_url |-> agentUrl,
     checked_at |-> now, error |-> error, source |-> source]

\* the catch block of fetchAndValidate: the message it reports
errorMsg(e) ==
    IF HasUnexpectedToken(e) THEN "File does not exist or is not valid JSON"
    ELSE IF e.name = "AbortError" THEN "Request timed out"
    ELSE e.message

RECURSIVE some(_, _)
\* data.authorized_agents.some(agent => agent.url.replace(/\/$/, "") ===
\* normalizedAgentUrl): stops at the first match, throws at the first entry
\* without a url that it reaches
some(list, normalizedAgentUrl) ==
    IF list = <<>> THEN "false"
    ELSE IF Head(list).kind # "object" THEN "throws"
    ELSE IF stripTrailingSlash(Head(list).url) = normalizedAgentUrl THEN "true"
    ELSE some(Tail(list), normalizedAgentUrl)

\* AgentValidator.fetchAndValidate once its fetch has settled with response
fetchAndValidate(domain, agentUrl, response) ==
    LET normalizedDomain == stripTrailingSlash(stripProtocol(domain))
        adagentsUrl == <<"https://">> \o normalizedDomain
                           \o <<"/.well-known/adagents.json">>
        failed(msg) == ValidationResult(FALSE, normalizedDomain, agentUrl, msg, NoSource)
        data == response.data
        isAuthorized == some(data.list, stripTrailingSlash(agentUrl))
    IN CASE response.kind = "rejected" -> failed(errorMsg(response.thrown))
         [] response.kind = "http" -> failed("HTTP " \o ToString(response.status))
         [] response.kind = "not-json" ->
                failed("File does not exist or returns " \o response.contentType
                           \o " instead of JSON")
         [] response.kind = "unparseable" -> failed(errorMsg(response.thrown))
         [] OTHER ->
                IF data.isNull THEN failed(errorMsg(ErrNullBody))
                ELSE IF data.agents # "array"
                THEN failed("Invalid adagents.json format: missing authorized_agents array")
                ELSE IF isAuthorized = "throws" THEN failed(errorMsg(ErrNoUrl))
                ELSE ValidationResult(isAuthorized = "true", normalizedDomain, agentUrl,
                                      NoError, adagentsUrl)

\* Cache.get's test of an entry, the comparison turned round
ExpiredInverted(entry) == now < entry.expiresAt
\* Cache.get: Date.now() > entry.expiresAt
Expired(entry) == now > entry.expiresAt

\* Cache.get: the value when the key is there and fresh; an expired entry is
\* deleted on the way
CacheGet(cache, key) ==
    IF key \notin DOMAIN cache THEN [hit |-> FALSE, cache |-> cache]
    ELSE IF Expired(cache[key])
    THEN [hit |-> FALSE, cache |-> [k \in DOMAIN cache \ {key} |-> cache[k]]]
    ELSE [hit |-> TRUE, cache |-> cache]

\* the variant of Cache.set that stores no failed validation
CacheSetAuthorizedOnly(cache, key, value) ==
    IF value.authorized
    THEN [k \in DOMAIN cache \cup {key} |->
             IF k = key THEN [value |-> value, expiresAt |-> now + ttlMs] ELSE cache[k]]
    ELSE cache
\* the variant of Cache.set that leaves the expiry of an entry it replaces
CacheSetKeepingExpiry(cache, key, value) ==
    [k \in DOMAIN cache \cup {key} |->
        IF k = key
        THEN [value |-> value,
              expiresAt |-> IF key \in DOMAIN cache THEN cache[key].expiresAt
                            ELSE now + ttlMs]
        ELSE cache[k]]
\* Cache.set
CacheSet(cache, key, value) ==
    [k \in DOMAIN cache \cup {key} |->
        IF k = key THEN [value |-> value, expiresAt |-> now + ttlMs] ELSE cache[k]]

\* const cacheKey = `${domain}:${agentUrl}`
cacheKey(domain, agentUrl) == domain \o <<":">> \o agentUrl

NoResponse == [kind |-> "none"]
NoValidation == [none |-> TRUE]
ValOutcome(how, domain, agentUrl, response, result) ==
    [how |-> how, domain |-> domain, agentUrl |-> agentUrl, response |-> response,
     result |-> result]

\* the variant of validate that joins a fetch already pending for its key
\* instead of starting its own
validateCoalescing(domain, agentUrl) ==
    LET key == cacheKey(domain, agentUrl)
        got == CacheGet(valCache, key)
        call == [domain |-> domain, agentUrl |-> agentUrl]
    IN /\ valCache' = got.cache
       /\ IF got.hit
          THEN /\ valOutcome' = ValOutcome("cached", domain, agentUrl, NoResponse,
                                           valCache[key].value)
               /\ UNCHANGED valFetches
          ELSE IF \E i \in 1..Len(valFetches) : valFetches[i] = call
               THEN /\ valOutcome' = ValOutcome("joined", domain, agentUrl, NoResponse,
                                                NoValidation)
                    /\ UNCHANGED valFetches
               ELSE /\ Len(valFetches) < MaxPending
                    /\ valFetches' = Append(valFetches, call)
                    /\ UNCHANGED valOutcome
\* AgentValidator.validate up to its await: the cached result, or the fetch
validate(domain, agentUrl) ==
    LET key == cacheKey(domain, agentUrl)
        got == CacheGet(valCache, key)
    IN /\ valCache' = got.cache
       /\ IF got.hit
          THEN /\ valOutcome' = ValOutcome("cached", domain, agentUrl, NoResponse,
                                           valCache[key].value)
               /\ UNCHANGED valFetches
          ELSE /\ Len(valFetches) < MaxPending
               /\ valFetches' = Append(valFetches, [domain |-> domain, agentUrl |-> agentUrl])
               /\ UNCHANGED valOutcome

Validate(domain, agentUrl) ==
    /\ validate(domain, agentUrl)
    /\ UNCHANGED <<indexVars, crawlerVars, trackerVars, cacheVars, formatsVars, registryVars,
                   healthVars>>

\* the fetch of a pending validate settles: fetchAndValidate's result is
\* cached and returned
ValidateSettles(i, response) ==
    /\ i \in 1..Len(valFetches)
    /\ LET call == valFetches[i]
           result == fetchAndValidate(call.domain, call.agentUrl, response)
       IN /\ valCache' = CacheSet(valCache, cacheKey(call.domain, call.agentUrl), result)
          /\ valOutcome' = ValOutcome("fetched", call.domain, call.agentUrl, response, result)
    /\ valFetches' = RemoveAt(valFetches, i)
    /\ UNCHANGED <<indexVars, crawlerVars, trackerVars, cacheVars, formatsVars, registryVars,
                   healthVars>>

(***************************************************************************)
(* A Cache<T> on its own, driven by its methods.                           *)
(***************************************************************************)
CacheKeys == {"k1", "k2"}
CacheValues == {"v1", "v2"}
Undefined == "undefined"     \* what get returns on a miss
CacheCall(op, key, value, returned) ==
    [op |-> op, key |-> key, value |-> value, returned |-> returned]

\* Cache.set(key, value)
Set(key, value) ==
    /\ cacheEntries' = CacheSet(cacheEntries, key, value)
    /\ cacheResult' = CacheCall("set", key, value, Undefined)
    /\ UNCHANGED <<indexVars, crawlerVars, validatorVars, trackerVars, formatsVars,
                   registryVars,
                   healthVars>>

\* Cache.get(key)
Get(key) ==
    LET got == CacheGet(cacheEntries, key)
    IN /\ cacheEntries' = got.cache
       /\ cacheResult' = CacheCall("get", key, Undefined,
                                   IF got.hit THEN cacheEntries[key].value ELSE Undefined)
       /\ UNCHANGED <<indexVars, crawlerVars, validatorVars, trackerVars, formatsVars,
                      registryVars,
                   healthVars>>

\* Cache.has(key): this.get(key) !== undefined
Has(key) ==
    LET got == CacheGet(cacheEntries, key)
    IN /\ cacheEntries' = got.cache
       /\ cacheResult' = CacheCall("has", key, Undefined, IF got.hit THEN "true" ELSE "false")
       /\ UNCHANGED <<indexVars, crawlerVars, validatorVars, trackerVars, formatsVars,
                      registryVars,
                   healthVars>>

\* the variant of size() that counts the unexpired entries only
sizeOfUnexpired(cache) == Cardinality({k \in DOMAIN cache : ~Expired(cache[k])})
\* Cache.size(): this.cache.size
size(cache) == Cardinality(DOMAIN cache)

\* Cache.clear()
CacheClear ==
    /\ cacheEntries' = EmptyMap
    /\ cacheResult' = CacheCall("clear", "", Undefined, Undefined)
    /\ UNCHANGED <<indexVars, crawlerVars, validatorVars, trackerVars, formatsVars,
                   registryVars,
                   healthVars>>

\* AgentValidator.clearCache
ClearCache ==
    /\ valCache' = EmptyMap
    /\ UNCHANGED <<valFetches, valOutcome, indexVars, crawlerVars, trackerVars, cacheVars, formatsVars, registryVars,
                   healthVars>>

\* time passes for the validator and the tracker
TimePasses ==
    /\ now < MaxClock
    /\ now' = now + 1
    /\ UNCHANGED <<indexVars, crawling, lastCrawl, lastResult, intervalId, timers,
                   created, inflight, outcome, serviceVars>>

(***************************************************************************)
(* IEEE-754 binary64 arithmetic, as far as checkPublisher's coverage needs *)
(* it: a positive double is its 53 significand bits, most significant      *)
(* first, and the number of those bits left of the binary point.  Wide     *)
(* numbers are handled 16 bits at a time.                                  *)
(***************************************************************************)
Precision == 53    \* significand bits of a binary64

\* the w-bit string of v, and the number a short bit string stands for
IntToBits(v, w) == [i \in 1..w |-> (v \div 2^(w - i)) % 2]
RECURSIVE BitsToInt(_)
BitsToInt(bits) ==
    IF bits = <<>> THEN 0
    ELSE 2 * BitsToInt(SubSeq(bits, 1, Len(bits) - 1)) + bits[Len(bits)]

RECURSIVE DropLeadingZeros(_)
DropLeadingZeros(x) ==
    IF x.bits # <<>> /\ x.bits[1] = 0
    THEN DropLeadingZeros([bits |-> Tail(x.bits), point |-> x.point - 1])
    ELSE x

\* round to nearest, ties to even, onto Precision bits
RoundToDouble(x) ==
    LET kept == SubSeq(x.bits, 1, Precision)
        guard == x.bits[Precision + 1]
        sticky == \E i \in (Precision + 2)..Len(x.bits) : x.bits[i] = 1
        up == guard = 1 /\ (sticky \/ kept[Precision] = 1)
        zeros == {i \in 1..Precision : kept[i] = 0}
        last == CHOOSE i \in zeros : \A j \in zeros : j <= i
    IN IF ~up THEN [bits |-> kept, point |-> x.point]
       ELSE IF zeros = {}
       THEN [bits |-> [i \in 1..Precision |-> IF i = 1 THEN 1 ELSE 0], point |-> x.point + 1]
       ELSE [bits |-> [i \in 1..Precision |->
                          IF i < last THEN kept[i] ELSE IF i = last THEN 1 ELSE 0],
             point |-> x.point]

RECURSIVE LeadingZeros(_, _)
\* the zero bits of r / n that follow the binary point, for 0 < r < n
LeadingZeros(r, n) == IF 2 * r >= n THEN 0 ELSE 1 + LeadingZeros(2 * r, n)

\* the double m / n, for 0 < m < n: long division, 16 quotient bits a step,
\* with a last bit that is set when a remainder is left over
Divide(m, n) ==
    LET zeros == LeadingZeros(m, n)
        r0 == (m * 2^zeros) % n
        q1 == (r0 * 65536) \div n
        r1 == (r0 * 65536) % n
        q2 == (r1 * 65536) \div n
        r2 == (r1 * 65536) % n
        q3 == (r2 * 65536) \div n
        r3 == (r2 * 65536) % n
        q4 == (r3 * 65536) \div n
        r4 == (r3 * 65536) % n
    IN RoundToDouble([bits |-> IntToBits(q1, 16) \o IntToBits(q2, 16) \o IntToBits(q3, 16)
                                   \o IntToBits(q4, 16) \o <<IF r4 > 0 THEN 1 ELSE 0>>,
                      point |-> 0 - zeros])

\* the double x * 100: the significand times 100, 16 bits at a time from the
\* low end, rounded back onto Precision bits
TimesHundred(x) ==
    LET t4 == BitsToInt(SubSeq(x.bits, 38, 53)) * 100
        t3 == BitsToInt(SubSeq(x.bits, 22, 37)) * 100 + t4 \div 65536
        t2 == BitsToInt(SubSeq(x.bits, 6, 21)) * 100 + t3 \div 65536
        t1 == BitsToInt(SubSeq(x.bits, 1, 5)) * 100 + t2 \div 65536
    IN RoundToDouble(DropLeadingZeros(
           [bits |-> IntToBits(t1, 12) \o IntToBits(t2 % 65536, 16)
                         \o IntToBits(t3 % 65536, 16) \o IntToBits(t4 % 65536, 16),
            point |-> x.point + 7]))

\* Math.round of a positive double: the integer part, one more when the
\* first fractional bit is set
MathRound(x) ==
    IF x.point < 0 THEN 0
    ELSE BitsToInt(SubSeq(x.bits, 1, x.point)) + x.bits[x.point + 1]

\* Math.round((matchCount / length) * 100)
RoundedPercent(matchCount, length) ==
    IF matchCount = 0 THEN 0
    ELSE IF matchCount = length THEN 100
    ELSE MathRound(TimesHundred(Divide(matchCount, length)))

(***************************************************************************)
(* PublisherTracker (publishers.ts).                                       *)
(***************************************************************************)
MaxExpected == 40  \* longest expected-agents list checkPublisher is given

\* the i-th sales agent's URL
AgentUrl(i) == <<"https://", "agent" \o ToString(i) \o ".example.com">>
\* the expected agents of a publisher that n agents claim
ExpectedFirst(n) == [i \in 1..n |-> AgentUrl(i)]
\* a manifest listing the first m of them, as objects or as flat strings
Listing(m, form) ==
    Manifest("array",
             [i \in 1..m |-> IF form = "object" THEN EntryObj(AgentUrl(i))
                             ELSE EntryStr(AgentUrl(i))],
             TRUE, "array", TRUE)

EntryNull == [kind |-> "null", url |-> <<>>]
TrackerEntries == {EntryObj(UrlSales), EntryNoUrl, EntryStr(UrlSales), EntryNull}
TrackerLists == UNION {[1..n -> TrackerEntries] : n \in 0..MaxEntries}
\* manifests of every shape: $schema, authorized_agents, properties (absent,
\* an array, something else) and last_updated
TrackerManifests ==
    {Manifest(shape[1], shape[2], schema, properties, updated) :
        shape \in {<<"absent", <<>>>>, <<"not-array", <<>>>>}
                      \cup {<<"array", list>> : list \in TrackerLists},
        schema \in BOOLEAN, properties \in {"absent", "array", "not-array"},
        updated \in BOOLEAN}
TrackerResponses == FailedResponses \cup {Json(JsonNull)} \cup {Json(m) : m \in TrackerManifests}

PublisherIssue(severity, message) == [severity |-> severity, message |-> message]

\* what validateSchema's loop over authorized_agents finds: "old" at the first
\* string (the loop breaks there), "throws" at a null, and whether an object
\* before that lacks its url
RECURSIVE AgentsLoop(_, _)
AgentsLoop(list, missingUrl) ==
    IF list = <<>> THEN [end |-> "done", missingUrl |-> missingUrl]
    ELSE IF Head(list).kind = "string" THEN [end |-> "old", missingUrl |-> missingUrl]
    ELSE IF Head(list).kind = "null" THEN [end |-> "throws", missingUrl |-> missingUrl]
    ELSE AgentsLoop(Tail(list), missingUrl + (IF Head(list).kind = "object" THEN 0 ELSE 1))

\* the variant that lets a non-array properties pass
IsValidIgnoringProperties(noArray, loop, content) == ~noArray /\ loop.missingUrl = 0
\* validateSchema's isValid before the return: no error issue was pushed
IsValid(noArray, loop, content) ==
    ~noArray /\ loop.missingUrl = 0 /\ content.properties # "not-array"

\* the variant that flags the string format only
HasOldSchemaStringsOnly(loop, content) == loop.end = "old"
\* validateSchema's hasOldSchema: a string entry, or no properties
HasOldSchema(loop, content) == loop.end = "old" \/ content.properties = "absent"

\* PublisherTracker.validateSchema on a parsed object
validateSchema(content) ==
    LET noArray == content.agents # "array"
        loop == IF noArray THEN [end |-> "done", missingUrl |-> 0]
                ELSE AgentsLoop(content.list, 0)
        issues ==
            (IF content.schema THEN <<>>
             ELSE <<PublisherIssue("warning", "Missing $schema field")>>)
            \o (IF noArray
                THEN <<PublisherIssue("error", "Missing or invalid authorized_agents array")>>
                ELSE [i \in 1..loop.missingUrl |->
                         PublisherIssue("error", "Agent missing required 'url' field")]
                     \o (IF loop.end = "old"
                         THEN <<PublisherIssue("warning",
                                               "Using old string format for authorized_agents")>>
                         ELSE <<>>))
            \o (CASE content.properties = "absent" ->
                         <<PublisherIssue("warning",
                                          "Missing 'properties' array (new AdCP v2 protocol)")>>
                  [] content.properties = "not-array" ->
                         <<PublisherIssue("error", "'properties' must be an array")>>
                  [] OTHER -> <<>>)
            \o (IF content.last_updated THEN <<>>
                ELSE <<PublisherIssue("warning", "Missing 'last_updated' field")>>)
        isValid == IsValid(noArray, loop, content)
        hasOldSchema == HasOldSchema(loop, content)
    IN [throws |-> loop.end = "throws", isValid |-> isValid /\ ~hasOldSchema,
        hasOldSchema |-> hasOldSchema, issues |-> issues]

\* content.authorized_agents.map((a) => a.url || a): the url, or the entry itself
Extracted(entry) ==
    IF entry.kind = "object-no-url" THEN [isString |-> FALSE, value |-> <<>>]
    ELSE [isString |-> TRUE, value |-> entry.url]

\* status.authorized_agents.includes(expected)
includes(authorized, expected) ==
    \E i \in 1..Len(authorized) : authorized[i].isString /\ authorized[i].value = expected

\* expectedAgents.filter((expected) => ...includes(expected)).length
matchCount(expectedAgents, authorized) ==
    Cardinality({i \in 1..Len(expectedAgents) : includes(authorized, expectedAgents[i])})

\* the variant that divides by the number of agents the manifest lists
CoverageOfListed(expectedAgents, authorized) ==
    IF Len(expectedAgents) > 0 /\ Len(authorized) > 0
    THEN RoundedPercent(matchCount(expectedAgents, authorized), Len(authorized))
    ELSE 0
\* the coverage calculation of checkPublisher
Coverage(expectedAgents, authorized) ==
    IF Len(expectedAgents) > 0
    THEN RoundedPercent(matchCount(expectedAgents, authorized), Len(expectedAgents))
    ELSE 0

\* the variant that reports the outdated schema only when nothing else is wrong
DeploymentStatusErrorsFirst(validation) ==
    IF validation.isValid THEN "deployed"
    ELSE IF \E i \in 1..Len(validation.issues) : validation.issues[i].severity = "error"
    THEN "error"
    ELSE "schema_outdated"
\* the status checkPublisher derives from validateSchema's verdict
DeploymentStatus(validation) ==
    IF validation.isValid THEN "deployed"
    ELSE IF validation.hasOldSchema THEN "schema_outdated"
    ELSE "error"

RECURSIVE Text(_)
\* the string a sequence of pieces spells
Text(pieces) == IF pieces = <<>> THEN "" ELSE Head(pieces) \o Text(Tail(pieces))

RECURSIVE join(_)
\* missingAgents.join(", ")
join(urls) ==
    IF urls = <<>> THEN ""
    ELSE IF Len(urls) = 1 THEN Text(urls[1])
    ELSE Text(Head(urls)) \o ", " \o join(Tail(urls))

\* the variant that files a response that is not ok under "error"
NotOkAsError == "error"
\* the status of a response that is not ok
NotOk == "missing"

ErrNullContent == Thrown("TypeError", "Cannot read properties of null (reading '$schema')")
ErrNullAgent == Thrown("TypeError", "Cannot read properties of null (reading 'url')")
ErrNoMap == Thrown("TypeError", "content.authorized_agents.map is not a function")

\* the variant whose catch block reports nothing
CaughtSilently(status, e) ==
    [status EXCEPT !.deployment_status = "error"]
\* the catch block of checkPublisher
Caught(status, e) ==
    [status EXCEPT !.deployment_status = "error",
                   !.issues = @ \o <<PublisherIssue("error", "Failed to fetch: " \o e.message)>>]

\* checkPublisher once the fetch of a pending call has settled with response
checkPublisher(call, response) ==
    LET status == [domain |-> call.domain, deployment_status |-> "missing",
                   adagents_file_url |-> <<"https://">> \o call.domain
                                             \o <<"/.well-known/adagents.json">>,
                   last_checked |-> call.last_checked, issues |-> <<>>,
                   authorized_agents |-> <<>>, expected_agents |-> call.expectedAgents,
                   coverage_percentage |-> 0]
        content == response.data
        validation == validateSchema(content)
        validated == [status EXCEPT !.issues = validation.issues,
                                    !.deployment_status = DeploymentStatus(validation)]
        authorized == [i \in 1..Len(content.list) |-> Extracted(content.list[i])]
        missingAgents == SelectSeq(call.expectedAgents,
                                   LAMBDA expected : ~includes(authorized, expected))
    IN CASE response.kind = "rejected" -> Caught(status, response.thrown)
         [] response.kind = "http" ->
                [status EXCEPT !.deployment_status = NotOk,
                               !.issues = <<PublisherIssue("error",
                                   "File not found (HTTP " \o ToString(response.status) \o ")")>>]
         [] response.kind = "not-json" ->
                [status EXCEPT !.deployment_status = "error",
                               !.issues = <<PublisherIssue("error",
                                   "Wrong content-type: " \o response.contentType
                                       \o ". Expected application/json")>>]
         [] response.kind = "unparseable" -> Caught(status, response.thrown)
         [] OTHER ->
                IF content.isNull THEN Caught(status, ErrNullContent)
                ELSE IF validation.throws THEN Caught(status, ErrNullAgent)
                ELSE IF content.agents = "not-array" THEN Caught(validated, ErrNoMap)
                ELSE [validated EXCEPT
                         !.authorized_agents = authorized,
                         !.coverage_percentage = Coverage(call.expectedAgents, authorized),
                         !.issues = @ \o (IF Len(missingAgents) > 0
                                          THEN <<PublisherIssue("warning",
                                                   "Missing " \o ToString(Len(missingAgents))
                                                       \o " expected agent(s): "
                                                       \o join(missingAgents))>>
                                          ELSE <<>>)]

\* a checkPublisher call awaiting its fetch; batch tells whether
\* trackPublishers made it
PubCall(domain, expectedAgents) ==
    [domain |-> domain, expectedAgents |-> expectedAgents, last_checked |-> now,
     batch |-> FALSE]
BatchCall(domain, expectedAgents) ==
    [domain |-> domain, expectedAgents |-> expectedAgents, last_checked |-> now,
     batch |-> TRUE]
NoBatch == [none |-> TRUE]
PubOutcome(how, call, response, status) ==
    [how |-> how, call |-> call, response |-> response, status |-> status]

\* statuses.set(domain, status) in the callback trackPublishers maps over its
\* publishers
Collected(batch, domain, status) ==
    [batch EXCEPT !.statuses = [d \in DOMAIN @ \cup {domain} |->
                                   IF d = domain THEN status ELSE @[d]],
                  !.waiting = @ \ {domain}]

\* the fetch of a pending checkPublisher settles: the status is cached under
\* the domain and returned
PublisherSettles(i, response) ==
    /\ i \in 1..Len(pubFetches)
    /\ LET status == checkPublisher(pubFetches[i], response)
       IN /\ pubCache' = [d \in DOMAIN pubCache \cup {pubFetches[i].domain} |->
                             IF d = pubFetches[i].domain THEN status ELSE pubCache[d]]
          /\ pubOutcome' = PubOutcome("fetched", pubFetches[i], response, status)
          /\ tracking' = IF pubFetches[i].batch
                          THEN Collected(tracking, pubFetches[i].domain, status)
                          ELSE tracking
    /\ pubFetches' = RemoveAt(pubFetches, i)
    /\ UNCHANGED <<indexVars, crawlerVars, validatorVars, cacheVars, formatsVars,
                 registryVars,
                   healthVars>>

\* PublisherTracker.CACHE_TTL_MS, in clock steps: one step is the 15 minutes
CACHE_TTL_MS == 1

\* the variant of the cache test that never holds
CachedNever(domain) == FALSE
\* checkPublisher's cache test: cached && Date.now() - last_checked < CACHE_TTL_MS
CachedFresh(domain) ==
    domain \in DOMAIN pubCache /\ now - pubCache[domain].last_checked < CACHE_TTL_MS

\* checkPublisher up to its await: the cached status, or the fetch
CheckPublisher(domain, expectedAgents) ==
    /\ IF CachedFresh(domain)
       THEN /\ pubOutcome' = PubOutcome("cached", PubCall(domain, expectedAgents),
                                        NoResponse, pubCache[domain])
            /\ UNCHANGED pubFetches
       ELSE /\ Len(pubFetches) < MaxPending
            /\ pubFetches' = Append(pubFetches, PubCall(domain, expectedAgents))
            /\ UNCHANGED pubOutcome
    /\ UNCHANGED <<pubCache, tracking, indexVars, crawlerVars, validatorVars, cacheVars,
                   formatsVars, registryVars,
                   healthVars>>

\* the registry's agents that trackPublishers is handed
RegAgent(type, url) == [type |-> type, url |-> url]
SalesOne == RegAgent("sales", <<"https://", "sales.example.com">>)
SalesOneMcp == RegAgent("sales", <<"https://", "Sales.example.com", "/mcp">>)
SalesTwo == RegAgent("sales", <<"https://", "ads.example.org">>)
CreativeOne == RegAgent("creative", <<"https://", "creative.example.com">>)
SalesBadUrl == RegAgent("sales", <<"sales.example.net">>)
AgentLists ==
    {<<SalesOne, CreativeOne, SalesOneMcp, SalesBadUrl, SalesTwo>>,
     <<SalesTwo, SalesOne>>, <<SalesOne>>, <<CreativeOne, SalesBadUrl>>}

\* the host of a URL as new URL(url).hostname spells it
LowerCaseHost(host) == IF host = "Sales.example.com" THEN "sales.example.com" ELSE host

\* PublisherTracker.extractDomain: the hostname, or null (here the empty string, which
\* trackPublishers skips alike) when new URL(url) throws
trackerDomain(url) ==
    IF Len(url) >= 2 /\ url[1] \in {"https://", "http://"} THEN LowerCaseHost(url[2]) ELSE ""

\* the variant that groups agents of every type
GroupedOfEveryType(agents) ==
    LET domains == {trackerDomain(agents[i].url) : i \in 1..Len(agents)} \ {""}
    IN [d \in {<<h>> : h \in domains} |->
           LET mine == SelectSeq(agents, LAMBDA a : <<trackerDomain(a.url)>> = d)
           IN [i \in 1..Len(mine) |-> mine[i].url]]
\* trackPublishers: publisherMap, domain -> the URLs of its sales agents
Grouped(agents) ==
    LET sales == SelectSeq(agents, LAMBDA a : a.type = "sales" /\ trackerDomain(a.url) # "")
        domains == {trackerDomain(sales[i].url) : i \in 1..Len(sales)}
    IN [d \in {<<h>> : h \in domains} |->
           LET mine == SelectSeq(sales, LAMBDA a : <<trackerDomain(a.url)>> = d)
           IN [i \in 1..Len(mine) |-> mine[i].url]]

RECURSIVE InOrder(_, _)
\* the keys of publisherMap in the order the map iterates them
InOrder(agents, seen) ==
    IF agents = <<>> THEN <<>>
    ELSE LET d == <<trackerDomain(Head(agents).url)>>
         IN IF d \in seen THEN InOrder(Tail(agents), seen)
            ELSE <<d>> \o InOrder(Tail(agents), seen \cup {d})

\* trackPublishers up to its await Promise.all: every publisher's
\* checkPublisher runs up to its own await; those the cache answers are
\* collected, the others fetch
TrackPublishers(agents) ==
    LET publisherMap == Grouped(agents)
        order == SelectSeq(InOrder(agents, {}), LAMBDA d : d \in DOMAIN publisherMap)
        misses == SelectSeq(order, LAMBDA d : ~CachedFresh(d))
    IN /\ tracking = NoBatch
       /\ Len(pubFetches) + Len(misses) <= MaxPending
       /\ tracking' = [agents |-> agents, calls |-> publisherMap,
                       statuses |-> [d \in {d \in DOMAIN publisherMap : CachedFresh(d)} |->
                                        pubCache[d]],
                       waiting |-> Range(misses)]
       /\ pubFetches' = pubFetches
                          \o [i \in 1..Len(misses) |-> BatchCall(misses[i], publisherMap[misses[i]])]
       /\ UNCHANGED <<pubCache, pubOutcome, indexVars, crawlerVars, validatorVars, cacheVars, formatsVars,
                 registryVars,
                   healthVars>>

\* every promise handed to Promise.all has resolved: trackPublishers returns
\* the statuses it collected
TrackResolves ==
    /\ tracking # NoBatch
    /\ tracking.waiting = {}
    /\ tracking' = NoBatch
    /\ UNCHANGED <<pubCache, pubFetches, pubOutcome, indexVars, crawlerVars, validatorVars, cacheVars, formatsVars,
                 registryVars,
                   healthVars>>

(***************************************************************************)
(* FormatsService.  A field that is absent, undefined or the empty string  *)
(* (all falsy) is "".                                                      *)
(***************************************************************************)
FORMATS_TTL_MS == 1     \* FormatsService.CACHE_TTL_MS, in clock steps

\* the agents getFormatsForAgent is called with: the second has no protocol
CreativeAgent(name, url, protocol) == [name |-> name, url |-> url, protocol |-> protocol]
FormatAgents ==
    {CreativeAgent("Creative One", "https://c1.example.com", "a2a"),
     CreativeAgent("Creative Two", "https://c2.example.com", "")}

\* a format as an agent reports it: a string, a null or an object
FormatName(name) == [kind |-> "string", name |-> name, format |-> "", dimensions |-> "",
                     size |-> "", aspect_ratio |-> "", aspectRatio |-> "", type |-> "",
                     format_type |-> "", description |-> ""]
FormatNull == [FormatName("") EXCEPT !.kind = "null"]
FormatObject(name, format, dimensions, sized, type) ==
    [kind |-> "object", name |-> name, format |-> format, dimensions |-> dimensions,
     size |-> sized, aspect_ratio |-> "", aspectRatio |-> "16:9", type |-> type,
     format_type |-> "display", description |-> ""]

\* a || b
Or(a, b) == IF a # "" THEN a ELSE b

FormatInfo(name, dimensions, aspect_ratio, type, description) ==
    [name |-> name, dimensions |-> dimensions, aspect_ratio |-> aspect_ratio,
     type |-> type, description |-> description]

\* FormatsService.normalizeFormat, for a format that is not null
normalizeFormat(format) ==
    IF format.kind = "string" THEN FormatInfo(format.name, "", "", "", "")
    ELSE FormatInfo(Or(format.name, Or(format.format, "unknown")),
                    Or(format.dimensions, format.size),
                    Or(format.aspect_ratio, format.aspectRatio),
                    Or(format.type, format.format_type),
                    format.description)

\* what executeTask's promise settles with
NoData == [kind |-> "undefined", items |-> <<>>]
TaskResolved(success, data, error) ==
    [kind |-> "resolved", success |-> success, data |-> data, error |-> error,
     thrown |-> NoThrow]
TaskRejected(e) ==
    [kind |-> "rejected", success |-> FALSE, data |-> NoData, error |-> "", thrown |-> e]
ErrNoTool == Thrown("Error", "Tool not found")
ErrNullFormat == Thrown("TypeError", "Cannot read properties of null (reading 'name')")
Display == FormatObject("iab_standard_display", "", "300x250", "", "display")
Unnamed == FormatObject("", "", "", "728x90", "")
TaskResults ==
    {TaskResolved(TRUE, [kind |-> "array", items |-> <<Display, FormatName("format1")>>], ""),
     TaskResolved(TRUE, [kind |-> "array", items |-> <<Display, FormatNull>>], ""),
     TaskResolved(TRUE, [kind |-> "wrapped", items |-> <<Unnamed>>], ""),
     TaskResolved(TRUE, [kind |-> "object", items |-> <<Display>>], ""),
     TaskResolved(TRUE, [kind |-> "string", items |-> <<>>], ""),
     TaskResolved(TRUE, NoData, ""),
     TaskResolved(FALSE, NoData, "Agent offline"),
     TaskResolved(FALSE, [kind |-> "array", items |-> <<Display>>], ""),
     TaskRejected(ErrNoTool)}

AgentFormatsProfile(agent, formats, error) ==
    [agent_url |-> agent.url, protocol |-> Or(agent.protocol, "mcp"), formats |-> formats,
     last_fetched |-> now, error |-> error]

\* the variant that lets a failure of the agent's call escape
ProfileOfOrThrow(agent, result) ==
    IF result.kind = "rejected" \/ ~result.success
    THEN [threw |-> TRUE, profile |-> AgentFormatsProfile(agent, <<>>, "")]
    ELSE [threw |-> FALSE, profile |-> AgentFormatsProfile(agent, <<>>, "")]
\* getFormatsForAgent once executeTask has settled with result: the profile
\* it builds, and whether it throws instead
ProfileOf(agent, result) ==
    LET data == result.data
        normalized == [i \in 1..Len(data.items) |-> normalizeFormat(data.items[i])]
        caught(e) == AgentFormatsProfile(agent, <<>>,
                         "Agent does not support list_creative_formats: " \o e.message)
    IN [threw |-> FALSE,
        profile |->
          IF result.kind = "rejected" THEN caught(result.thrown)
          ELSE IF result.success /\ data.kind # "undefined"
          THEN IF data.kind \in {"array", "wrapped", "object"}
               THEN IF \E i \in 1..Len(data.items) : data.items[i].kind = "null"
                    THEN caught(ErrNullFormat)
                    ELSE AgentFormatsProfile(agent, normalized, "")
               ELSE AgentFormatsProfile(agent, <<>>, "")
          ELSE IF ~result.success
          THEN AgentFormatsProfile(agent, <<>>,
                   "Agent returned error: " \o Or(result.error, "Unknown error"))
          ELSE AgentFormatsProfile(agent, <<>>, "")]

\* the variant of the cache test that never holds
FormatsCachedNever(url) == FALSE
\* getFormatsForAgent's cache test:
\* cached && Date.now() - last_fetched < CACHE_TTL_MS
FormatsCached(url) ==
    url \in DOMAIN formatsCache /\ now - formatsCache[url].last_fetched < FORMATS_TTL_MS

NoProfile == [none |-> TRUE]
NoTaskResult == [kind |-> "none"]
FormatsOutcome(how, agent, result, profile) ==
    [how |-> how, agent |-> agent, result |-> result, profile |-> profile]

\* getFormatsForAgent up to its await: the cached profile, or the agent is
\* asked for its formats
GetFormatsForAgent(agent) ==
    /\ IF FormatsCached(agent.url)
       THEN /\ formatsOutcome' = FormatsOutcome("cached", agent, NoTaskResult,
                                                formatsCache[agent.url])
            /\ UNCHANGED formatsCalls
       ELSE /\ Len(formatsCalls) < MaxPending
            /\ formatsCalls' = Append(formatsCalls, agent)
            /\ UNCHANGED formatsOutcome
    /\ UNCHANGED <<formatsCache, indexVars, crawlerVars, validatorVars, trackerVars,
                   cacheVars, registryVars,
                   healthVars>>

\* executeTask of a pending getFormatsForAgent settles: the profile is cached
\* under the agent's URL and returned, or the call rejects
FormatsSettle(i, result) ==
    /\ i \in 1..Len(formatsCalls)
    /\ LET got == ProfileOf(formatsCalls[i], result)
       IN IF got.threw
          THEN /\ formatsOutcome' = FormatsOutcome("rejected", formatsCalls[i], result,
                                                   NoProfile)
               /\ UNCHANGED formatsCache
          ELSE /\ formatsOutcome' = FormatsOutcome("fetched", formatsCalls[i], result,
                                                   got.profile)
               /\ formatsCache' = [u \in DOMAIN formatsCache \cup {formatsCalls[i].url} |->
                                      IF u = formatsCalls[i].url THEN got.profile
                                      ELSE formatsCache[u]]
    /\ formatsCalls' = RemoveAt(formatsCalls, i)
    /\ UNCHANGED <<indexVars, crawlerVars, validatorVars, trackerVars, cacheVars,
                   registryVars,
                   healthVars>>

(***************************************************************************)
(* Registry (registry.ts).  The registry directory is, per agent type, the *)
(* files readdir lists, in that order.                                     *)
(***************************************************************************)
AgentTypes == <<"creative", "signals", "sales">>     \* load(): types

\* a file of the registry: its name, and the type field of the agent it
\* holds ("malformed" when its content does not parse)
RegFile(name, extension, type) == [name |-> name, extension |-> extension, type |-> type]
FileTypes == Range(AgentTypes) \cup {"malformed"}
CreativeDirs ==
    {<<>>} \cup {<<RegFile("a", ".json", t)>> : t \in FileTypes}
           \cup {<<RegFile("a", ".json", t), RegFile("README", ".md", "malformed"),
                   RegFile("b", ".json", u)>> : t \in FileTypes, u \in Range(AgentTypes)}
OtherDirs == {<<>>} \cup {<<RegFile("a", ".json", t)>> : t \in Range(AgentTypes)}
RegistryRoots ==
    {[creative |-> c, signals |-> g, sales |-> s] :
        c \in CreativeDirs, g \in OtherDirs, s \in OtherDirs}

\* const key = `${type}/${file.replace(".json", "")}`
RegistryKey(type, file) == <<type, "/", file.name>>

RECURSIVE LoadDir(_, _, _)
\* load(): the loop over the files of one directory; a file that does not
\* parse throws and ends the loop
LoadDir(agents, type, files) ==
    IF files = <<>> THEN agents
    ELSE LET file == Head(files)
             key == RegistryKey(type, file)
             agent == RegAgent(file.type, <<"https://", file.name, ".", type, ".example.com">>)
             at == {i \in 1..Len(agents) : agents[i].key = key}
         IN IF file.extension # ".json" THEN LoadDir(agents, type, Tail(files))
            ELSE IF file.type = "malformed" THEN agents
            ELSE LoadDir(IF at = {} THEN Append(agents, [key |-> key, agent |-> agent])
                         ELSE [i \in 1..Len(agents) |->
                                  IF i \in at THEN [key |-> key, agent |-> agent]
                                  ELSE agents[i]],
                         type, Tail(files))

\* Registry.load over a registry directory
load(agents, root) ==
    LoadDir(LoadDir(LoadDir(agents, AgentTypes[1], root[AgentTypes[1]]),
                    AgentTypes[2], root[AgentTypes[2]]),
            AgentTypes[3], root[AgentTypes[3]])

\* key.startsWith(`${type}/`)
StartsWithType(key, type) == key[1] = type /\ key[2] = "/"

\* Registry.listAgents(type?); no type is ""
listAgents(agents, type) ==
    LET entries == IF type # "" THEN SelectSeq(agents, LAMBDA e : StartsWithType(e.key, type))
                   ELSE agents
    IN [i \in 1..Len(entries) |-> entries[i].agent]

ListCall(type, agents) == [type |-> type, agents |-> agents]

\* the server's start: Registry.load reads the registry directory
Load(root) ==
    /\ registry = <<>>
    /\ registry' = load(registry, root)
    /\ UNCHANGED <<listed, indexVars, crawlerVars, validatorVars, trackerVars, cacheVars,
                   formatsVars,
                   healthVars>>

\* the list_agents tool and Registry.listAgents
ListAgents(type) ==
    /\ listed' = ListCall(type, listAgents(registry, type))
    /\ UNCHANGED <<registry, indexVars, crawlerVars, validatorVars, trackerVars, cacheVars,
                   formatsVars,
                   healthVars>>

\* the services that are modelled on their own, after construction
(***************************************************************************)
(* HealthChecker.getStats (health.ts) over its Cache<AgentStats>.          *)
(***************************************************************************)
HealthAgent(type, url) == [type |-> type, url |-> url]

\* an AgentStats: fields names the properties the object carries
AgentStats(fields, property_count, publishers, creative_formats) ==
    [fields |-> fields, property_count |-> property_count, publishers |-> publishers,
     publisher_count |-> Len(publishers), creative_formats |-> creative_formats]
\* const stats: AgentStats = {}
EmptyStats == AgentStats({}, 0, <<>>, 0)

RECURSIVE publisherDomains(_)
\* auth.publisher_domains: the publishers of the agent's properties, each once
publisherDomains(properties) ==
    IF properties = <<>> THEN <<>>
    ELSE LET before == publisherDomains(SubSeq(properties, 1, Len(properties) - 1))
         IN SetAdd(before, properties[Len(properties)].publisher_domain)

NoFormats == -1    \* list_creative_formats failed, or answered without a formats array

\* HealthChecker.fetchStats; formats is what list_creative_formats answers a
\* creative agent with
fetchStats(agent, formats) ==
    IF agent.type = "sales"
    THEN LET auth == getAgentAuthorizations(agent.url)
         IN IF Len(auth.properties) > 0
            THEN AgentStats({"property_count", "publishers", "publisher_count"},
                            Len(auth.properties), publisherDomains(auth.properties), 0)
            ELSE EmptyStats
    ELSE IF agent.type = "creative" /\ formats # NoFormats
    THEN AgentStats({"creative_formats"}, 0, <<>>, formats)
    ELSE EmptyStats

StatsOutcome(how, agent, stats) == [how |-> how, agent |-> agent, stats |-> stats]

\* the variant of the lookup that never finds an entry
statsLookupMiss(agentUrl) == [hit |-> FALSE, cache |-> statsCache]
\* const cached = this.statsCache.get(agent.url)
statsLookup(agentUrl) == CacheGet(statsCache, agentUrl)

\* HealthChecker.getStats: the cached stats, or the stats fetchStats computes
\* now, stored under the agent's url
GetStats(agent, formats) ==
    LET got == statsLookup(agent.url)
        stats == fetchStats(agent, formats)
    IN /\ IF got.hit
          THEN /\ statsCache' = got.cache
               /\ statsOutcome' = StatsOutcome("cached", agent, statsCache[agent.url].value)
          ELSE /\ statsCache' = CacheSet(got.cache, agent.url, stats)
               /\ statsOutcome' = StatsOutcome("fetched", agent, stats)
       /\ UNCHANGED <<indexVars, crawlerVars, validatorVars, trackerVars, cacheVars,
                      formatsVars, registryVars>>

StandaloneInit ==
    /\ registry = <<>>
    /\ listed = ListCall("none", <<>>)
    /\ cacheEntries = EmptyMap
    /\ cacheResult = CacheCall("none", "", Undefined, Undefined)
    /\ formatsCache = EmptyMap
    /\ formatsCalls = <<>>
    /\ formatsOutcome = FormatsOutcome("none", CreativeAgent("", "", ""), NoTaskResult,
                                       NoProfile)
    /\ statsCache = EmptyMap
    /\ statsOutcome = StatsOutcome("none", HealthAgent("", ""), EmptyStats)

Init ==
    /\ agentProperties = EmptyMap
    /\ propertyToAgents = EmptyMap
    /\ indexCall = "none"
    /\ crawling = FALSE
    /\ lastCrawl = NoDate
    /\ lastResult = NoResult
    /\ intervalId = NoTimer
    /\ timers = EmptyMap
    /\ created = 0
    /\ inflight = <<>>
    /\ now = 0
    /\ outcome = Outcome("none", Null, NoResult)
    /\ valCache = EmptyMap
    /\ valFetches = <<>>
    /\ valOutcome = ValOutcome("none", <<>>, <<>>, NoResponse, NoValidation)
    /\ pubCache = EmptyMap
    /\ pubFetches = <<>>
    /\ pubOutcome = PubOutcome("none", PubCall(<<>>, <<>>), NoResponse, NoValidation)
    /\ tracking = NoBatch
    /\ StandaloneInit

IndexNext ==
    \/ \E agentUrl \in Agents, properties \in PropLists :
           AddAgentProperties(agentUrl, properties)
    \/ Clear

\* the Property Index driven directly by its own operations
IndexSpec == Init /\ [][IndexNext]_vars

Settle ==
    \/ \E i \in 1..MaxInFlight, agentUrl \in Agents, reply \in AgentReplies :
           AgentSettles(i, agentUrl, reply)
    \/ \E i \in 1..MaxInFlight : SweepResolves(i)
    \/ \E i \in 1..MaxInFlight : SweepRejects(i)

Next ==
    \/ \E agents \in Fleets : ManualCrawl(agents)
    \/ \E agents \in PeriodicFleets : StartPeriodicCrawl(agents)
    \/ StopPeriodicCrawl
    \/ \E h \in 1..MaxTimers : TimerTick(h)
    \/ Settle
    \/ AdvanceClock

\* the crawler with its callers, timers and the agents' replies
Spec == Init /\ [][Next]_vars

\* every pending query and every pending crawlAgents promise settles
FairSpec == Spec /\ WF_vars(Settle)

\* the manifests the validator is run against: every shape of authorized_agents
ValidatorResponses ==
    FailedResponses
      \cup {Json(JsonNull), Json(Manifest("absent", <<>>, TRUE, "array", TRUE)),
            Json(Manifest("not-array", <<>>, TRUE, "array", TRUE))}
      \cup {Json(Manifest("array", list, TRUE, "array", TRUE)) : list \in EntryLists}

ValidatorNext ==
    \/ \E domain \in {DomainPlain, DomainSlash}, agentUrl \in AgentArgs :
           /\ valCache = EmptyMap
           /\ valFetches = <<>>
           /\ Validate(domain, agentUrl)
    \/ \E response \in ValidatorResponses : ValidateSettles(1, response)
    \/ ClearCache

\* one validate at a time on an empty cache, against every fetch outcome
ValidatorSpec == Init /\ [][ValidatorNext]_vars

CacheDomains == DomainArgs \ {DomainSlash}
CacheResponses ==
    {HttpError(404), Json(Manifest("array", <<EntryObj(UrlSales)>>, TRUE, "array", TRUE))}

ValCacheNext ==
    \/ \E domain \in CacheDomains : Validate(domain, UrlSales)
    \/ \E i \in 1..MaxPending, response \in CacheResponses : ValidateSettles(i, response)
    \/ ClearCache
    \/ TimePasses

\* overlapping validate calls over the cache while time passes
ValCacheSpec == Init /\ [][ValCacheNext]_vars

\* checkPublisher has been called on the fresh tracker and awaits its fetch
\* (the cache is empty, so the call went past it)
PendingCheck(expected) ==
    /\ agentProperties = EmptyMap
    /\ propertyToAgents = EmptyMap
    /\ indexCall = "none"
    /\ crawling = FALSE
    /\ lastCrawl = NoDate
    /\ lastResult = NoResult
    /\ intervalId = NoTimer
    /\ timers = EmptyMap
    /\ created = 0
    /\ inflight = <<>>
    /\ now = 0
    /\ outcome = Outcome("none", Null, NoResult)
    /\ valCache = EmptyMap
    /\ valFetches = <<>>
    /\ valOutcome = ValOutcome("none", <<>>, <<>>, NoResponse, NoValidation)
    /\ pubCache = EmptyMap
    /\ pubFetches \in {<<PubCall(DomainPlain, expectedAgents)>> : expectedAgents \in expected}
    /\ pubOutcome = PubOutcome("none", PubCall(<<>>, <<>>), NoResponse, NoValidation)
    /\ tracking = NoBatch
    /\ StandaloneInit

CoverageInit == PendingCheck({ExpectedFirst(n) : n \in 0..MaxExpected})
CoverageNext ==
    \E m \in 0..MaxExpected, form \in {"object", "string"} :
        PublisherSettles(1, Json(Listing(m, form)))

\* checkPublisher on every expected list against manifests listing some of it
CoverageSpec == CoverageInit /\ [][CoverageNext]_vars

TrackerInit == PendingCheck({<<>>, <<UrlSales>>, <<UrlSales, UrlSalesSlash>>})
TrackerNext == \E response \in TrackerResponses : PublisherSettles(1, response)

\* checkPublisher against every fetch outcome and every shape of manifest
CacheNext ==
    \/ \E key \in CacheKeys, value \in CacheValues : Set(key, value)
    \/ \E key \in CacheKeys : Get(key)
    \/ \E key \in CacheKeys : Has(key)
    \/ CacheClear
    \/ TimePasses

\* a Cache called directly while time passes
CacheSpec == Init /\ [][CacheNext]_vars

FormatsNext ==
    \/ \E agent \in FormatAgents : GetFormatsForAgent(agent)
    \/ \E i \in 1..MaxPending, result \in TaskResults : FormatsSettle(i, result)
    \/ TimePasses

\* getFormatsForAgent calls that overlap while time passes
FormatsSpec == Init /\ [][FormatsNext]_vars

RegistryNext ==
    \/ \E root \in RegistryRoots : Load(root)
    \/ \E type \in Range(AgentTypes) \cup {""} : ListAgents(type)

\* the registry loaded from a directory and then listed
RegistrySpec == Init /\ [][RegistryNext]_vars

PubDomains == {DomainPlain}
PubExpected == {<<UrlSales>>, <<UrlSales, UrlSalesSlash>>}
PubResponses ==
    {HttpError(404), Json(Manifest("array", <<EntryObj(UrlSales)>>, TRUE, "array", TRUE))}
PubCacheNext ==
    \/ \E domain \in PubDomains, expectedAgents \in PubExpected :
           CheckPublisher(domain, expectedAgents)
    \/ \E i \in 1..MaxPending, response \in PubResponses : PublisherSettles(i, response)
    \/ TimePasses

\* overlapping checkPublisher calls over the tracker's cache while time passes
PubCacheSpec == Init /\ [][PubCacheNext]_vars

OverlapNext ==
    \/ Validate(DomainPlain, UrlSales)
    \/ \E i \in 1..MaxPending, response \in CacheResponses : ValidateSettles(i, response)
    \/ \E expectedAgents \in PubExpected : CheckPublisher(DomainPlain, expectedAgents)
    \/ \E i \in 1..MaxPending, response \in PubResponses : PublisherSettles(i, response)

\* validate calls for one key and checkPublisher calls for one domain that
\* overlap, with the clock standing still
OverlapSpec == Init /\ [][OverlapNext]_vars

\* entries that spell one agent with and without a trailing slash, as objects
\* and in the flat-string form
AgreeEntries == {EntryObj(UrlSales), EntryObj(UrlSalesSlash), EntryStr(UrlSales)}
AgreeResponses ==
    {HttpError(404)}
      \cup {Json(Manifest("array", list, TRUE, "array", TRUE)) :
               list \in UNION {[1..n -> AgreeEntries] : n \in 0..MaxEntries}}
AgreeNext ==
    \/ \E agentUrl \in AgentArgs :
           /\ valCache = EmptyMap
           /\ valFetches = <<>>
           /\ Validate(DomainPlain, agentUrl)
    \/ \E response \in AgreeResponses : ValidateSettles(1, response)
    \/ \E agentUrl \in AgentArgs :
           /\ pubCache = EmptyMap
           /\ pubFetches = <<>>
           /\ CheckPublisher(DomainPlain, <<agentUrl>>)
    \/ \E response \in AgreeResponses : PublisherSettles(1, response)

\* one validate(domain, a) and one checkPublisher(domain, [a]), each on its
\* empty cache, against the manifests a publisher may serve
AgreeSpec == Init /\ [][AgreeNext]_vars

HealthAgents ==
    {HealthAgent("sales", "https://a1.example"),
     HealthAgent("creative", "https://creative.example")}
HealthLists == {<<PropSite>>, <<PropSite, PropBare>>}
FormatCounts == {NoFormats, 2}
HealthNext ==
    \/ \E properties \in HealthLists : AddAgentProperties("https://a1.example", properties)
    \/ \E agent \in HealthAgents, formats \in FormatCounts : GetStats(agent, formats)
    \/ TimePasses

\* getStats calls while a sweep installs an agent's properties and time passes
HealthSpec == Init /\ [][HealthNext]_vars

TrackerSpec == TrackerInit /\ [][TrackerNext]_vars

BatchResponses ==
    {Rejected(ErrFetchFailed), HttpError(404), NotJson("text/html"),
     Unparseable(ErrBadJson), Json(JsonNull),
     Json(Manifest("not-array", <<>>, TRUE, "array", TRUE)),
     Json(Manifest("array", <<EntryNull>>, TRUE, "array", TRUE)),
     Json(Manifest("array", <<EntryObj(SalesOne.url)>>, TRUE, "array", TRUE))}

BatchSettle == \E i \in 1..MaxPending, response \in BatchResponses : PublisherSettles(i, response)

BatchNext ==
    \/ \E agents \in AgentLists : TrackPublishers(agents)
    \/ BatchSettle
    \/ TrackResolves
    \/ TimePasses

\* trackPublishers batches over the tracker's cache while time passes
BatchSpec == Init /\ [][BatchNext]_vars

\* every pending fetch settles and every settled batch returns
BatchFairSpec == BatchSpec /\ WF_vars(BatchSettle) /\ WF_vars(TrackResolves)

(***************************************************************************)
(* Claims about the Property Index, checked under IndexSpec.               *)
(***************************************************************************)
\* what an agent's current claim set says, read off the forward map alone
ClaimSet(agentUrl) ==
    IF agentUrl \in DOMAIN agentProperties THEN agentProperties[agentUrl] ELSE <<>>

ClaimsIdentifier(agentUrl, id) ==
    \E i \in 1..Len(ClaimSet(agentUrl)) : id \in Range(ClaimSet(agentUrl)[i].identifiers)

MatchesFor(agentUrl, id) ==
    {m \in Range(findAgentsForProperty(id.type, id.value)) : m.agent_url = agentUrl}

\* C3: every step that installs list P for agent A leaves
\* getAgentAuthorizations(A).properties equal to P, whatever the index held before.
C3_ReplaceIsExact ==
    [][\A agentUrl \in Agents, properties \in PropLists :
          AddAgentProperties(agentUrl, properties)
              => (getAgentAuthorizations(agentUrl).properties)' = properties]_vars

\* an agent whose claims were replaced: its reverse entry for the site's domain
\* is left over from an earlier, different claim set
C3_Witness ==
    \E agentUrl \in Agents :
        /\ getAgentAuthorizations(agentUrl).properties = <<PropApp>>
        /\ Key("domain", "x.com") \in DOMAIN propertyToAgents
        /\ agentUrl \in Range(propertyToAgents[Key("domain", "x.com")])

\* C4: findAgentsForProperty(t, v) holds a match for agent A exactly when A's
\* current claim set has a property carrying {t, v}: every claimed identifier is
\* found, and an identifier dropped by a replacement is no longer found.
C4_FindMatchesCurrentClaims ==
    \A agentUrl \in Agents, id \in Identifiers :
        /\ ClaimsIdentifier(agentUrl, id) => MatchesFor(agentUrl, id) # {}
        /\ ~ClaimsIdentifier(agentUrl, id) => MatchesFor(agentUrl, id) = {}

\* one agent still claims the app identifier, the other dropped it in a
\* replacement (its reverse entry remains) and is not matched
C4_Witness ==
    \E a, b \in Agents :
        /\ a # b
        /\ MatchesFor(a, IdApp) # {}
        /\ ClaimSet(b) = <<PropBare>>
        /\ b \in Range(propertyToAgents[Key("app", "ios:1")])
        /\ MatchesFor(b, IdApp) = {}

\* C5: an agent is listed under a reverse-index key only if its current claim
\* set has a property with an identifier of that key.
C5_ReverseIndexConsistent ==
    \A key \in DOMAIN propertyToAgents :
        \A agentUrl \in Range(propertyToAgents[key]) :
            \E id \in Identifiers :
                /\ Key(id.type, id.value) = key
                /\ ClaimsIdentifier(agentUrl, id)

(***************************************************************************)
(* Claims about the CrawlerService, checked under Spec and FairSpec.       *)
(***************************************************************************)
A1 == "https://a1.example"
A2 == "https://a2.example"

\* a call of crawlAllAgents by any of its callers
CrawlCalled ==
    \/ \E agents \in Fleets : ManualCrawl(agents)
    \/ \E agents \in PeriodicFleets : StartPeriodicCrawl(agents)
    \/ \E h \in 1..MaxTimers : TimerTick(h)

\* C1: at most one crawlAgents invocation is pending at any time, and one is
\* pending whenever crawling is set, so no call made while crawling starts another.
C1_SingleFlight ==
    /\ Len(inflight) <= 1
    /\ crawling => Len(inflight) = 1

\* a timer tick arrived during a sweep over one agent (a manual one: the timers
\* crawl two) and was turned away
C1_Witness ==
    /\ crawling
    /\ Len(inflight) = 1
    /\ inflight[1].agents = <<A1>>
    /\ outcome.how = "skipped"
    /\ outcome.by = "tick"

\* what the caller of a skipped call must get: the last completed result
PreviousResult == IF lastResult = NoResult THEN emptyResult ELSE lastResult

\* C2: a call made while a sweep is pending returns in that same step, with the
\* last completed result (the empty result when there is none), and leaves the
\* index, lastResult, lastCrawl and the pending sweep as they were.
C2_SkipReturnsPrevious ==
    [][(crawling /\ CrawlCalled)
          => /\ outcome'.how = "skipped"
             /\ outcome'.value = PreviousResult
             /\ UNCHANGED <<agentProperties, propertyToAgents, lastResult, lastCrawl,
                            inflight, crawling>>]_vars

\* a skipped call that returned an earlier sweep's result while the running
\* sweep had already installed claims
C2_Witness ==
    /\ crawling
    /\ outcome.how = "skipped"
    /\ lastResult # NoResult
    /\ outcome.value = lastResult
    /\ DOMAIN agentProperties # {}

Failed(sweep) == {sweep.result.errors[k].agent_url : k \in 1..Len(sweep.result.errors)}
Succeeded(sweep) == Range(sweep.agents) \ Failed(sweep)

RECURSIVE SumOfClaims(_)
SumOfClaims(agentUrls) ==
    IF agentUrls = {} THEN 0
    ELSE LET a == CHOOSE x \in agentUrls : TRUE
         IN Len(ClaimSet(a)) + SumOfClaims(agentUrls \ {a})

\* C6: when every query of a sweep over n agents has settled, its result counts
\* each agent once (successful + failed = n), lists one error per failed agent,
\* and every agent that succeeded is installed in the index with its properties
\* counted, whatever the other agents did.
C6_EveryAgentCountedOnce ==
    \A i \in 1..Len(inflight) :
        inflight[i].pending = {} =>
            LET sweep == inflight[i]
                r == sweep.result
            IN /\ r.successfulAgents + r.failedAgents = Len(sweep.agents)
               /\ Len(r.errors) = r.failedAgents
               /\ Cardinality(Failed(sweep)) = r.failedAgents
               /\ Failed(sweep) \subseteq Range(sweep.agents)
               /\ Succeeded(sweep) \subseteq DOMAIN agentProperties
               /\ r.totalProperties = SumOfClaims(Succeeded(sweep))

\* a settled sweep over two agents: one failed, the other's claims are installed
C6_Witness ==
    /\ Len(inflight) = 1
    /\ inflight[1].pending = {}
    /\ inflight[1].result.failedAgents = 1
    /\ inflight[1].result.successfulAgents = 1
    /\ inflight[1].result.totalProperties = 2
    /\ \E a \in Agents : ClaimSet(a) = <<PropApp, PropBare>>

C8_SweepSettles ==
    /\ (inflight # <<>>) ~> (inflight = <<>>)
    /\ [][(Len(inflight') < Len(inflight) /\ outcome'.how = "resolved")
             => /\ crawling' = FALSE
                /\ \E i \in 1..Len(inflight) : outcome'.value = inflight[i].result
                /\ lastResult' = outcome'.value
                /\ lastCrawl' = now]_vars

\* a sweep resolved after the clock had advanced
C8_Witness ==
    /\ outcome.how = "resolved"
    /\ ~crawling
    /\ lastResult = outcome.value
    /\ lastResult.successfulAgents = 1
    /\ lastCrawl = 1

\* C9: no call of crawlAllAgents ends by throwing.
C9_NeverThrows == outcome.how # "rejected"

\* C10: while no interval is registered in intervalId (before the first
\* startPeriodicCrawl, and after each stopPeriodicCrawl), no timer tick calls
\* crawlAllAgents.
C10_NoTickAfterStop ==
    [][intervalId = NoTimer => ~(\E h \in 1..MaxTimers : TimerTick(h))]_vars

(***************************************************************************)
(* The validator's claims.                                                 *)
(***************************************************************************)
\* a fetch outcome the validator must answer with a failure: anything but a
\* parsed manifest whose authorized_agents is an array of objects with a url
FailureOutcome(response) ==
    \/ response.kind # "json"
    \/ response.data.isNull
    \/ response.data.agents # "array"
    \/ \E i \in 1..Len(response.data.list) : response.data.list[i].kind # "object"

\* C11: whatever the fetch does, validate returns; and when the outcome is a
\* failure (non-2xx, not JSON, unparseable, no authorized_agents array, an
\* entry without a url, network error, timeout) the Result has
\* authorized = false and a non-empty error.
C11_FailureIsReported ==
    (valOutcome.how = "fetched" /\ FailureOutcome(valOutcome.response))
        => /\ ~valOutcome.result.authorized
           /\ valOutcome.result.error # NoError

\* the claim's own reading of "after stripping one trailing slash"
WithoutOneSlash(s) ==
    IF Len(s) > 0 /\ s[Len(s)] = "/" THEN [i \in 1..(Len(s) - 1) |-> s[i]] ELSE s

\* C12: when the manifest parses, the Result is authorized exactly when some
\* authorized_agents[].url equals agentUrl once one trailing slash is taken
\* off both; the comparison is otherwise exact and case-sensitive.
C12_AuthorizedIffListed ==
    (valOutcome.how = "fetched" /\ ~FailureOutcome(valOutcome.response))
        => (valOutcome.result.authorized
              <=> \E i \in 1..Len(valOutcome.response.data.list) :
                      WithoutOneSlash(valOutcome.response.data.list[i].url)
                          = WithoutOneSlash(valOutcome.agentUrl))

\* the spec's example: agent "https://sales.example.com/" against a manifest
\* listing "https://sales.example.com" came back authorized
C12_Witness ==
    /\ valOutcome.how = "fetched"
    /\ valOutcome.agentUrl = UrlSalesSlash
    /\ valOutcome.response = Json(Manifest("array", <<EntryObj(UrlSales)>>, TRUE, "array", TRUE))
    /\ valOutcome.result.authorized

\* the entry of validate(domain, agentUrl) is there and its TTL has not elapsed
StoredAndFresh(domain, agentUrl) ==
    /\ cacheKey(domain, agentUrl) \in DOMAIN valCache
    /\ now < valCache[cacheKey(domain, agentUrl)].expiresAt

\* C13: a completed validate stores the Result it returns for the TTL, and a
\* validate with the same arguments made before that TTL has elapsed starts
\* no fetch and returns that stored Result.
C13_CacheBeforeNetwork ==
    [][/\ \A i \in 1..MaxPending, response \in CacheResponses :
              ValidateSettles(i, response)
                  => valCache'[cacheKey(valFetches[i].domain, valFetches[i].agentUrl)]
                         = [value |-> valOutcome'.result, expiresAt |-> now + ttlMs]
       /\ \A domain \in CacheDomains :
              (StoredAndFresh(domain, UrlSales) /\ Validate(domain, UrlSales))
                  => /\ valFetches' = valFetches
                     /\ valOutcome'.how = "cached"
                     /\ valOutcome'.result = valCache[cacheKey(domain, UrlSales)].value
                     /\ valCache' = valCache]_vars

\* a validate answered from the cache after an earlier one had fetched, with
\* nothing awaiting a fetch
C13_Witness ==
    /\ valOutcome.how = "cached"
    /\ valOutcome.result.authorized
    /\ valFetches = <<>>
    /\ StoredAndFresh(valOutcome.domain, valOutcome.agentUrl)

\* the lower-case form of a piece
ToLowerCase(piece) ==
    CASE piece = "X.com" -> "x.com"
      [] piece = "Sales.example.com" -> "sales.example.com"
      [] OTHER -> piece

\* the claim's normal form of a domain: no scheme, no trailing slash, lower case
CanonicalDomain(domain) ==
    LET bare == WithoutOneSlash(IF Len(domain) > 0 /\ domain[1] \in {"https://", "http://"}
                                THEN [i \in 1..(Len(domain) - 1) |-> domain[i + 1]]
                                ELSE domain)
    IN [i \in 1..Len(bare) |-> ToLowerCase(bare[i])]

\* C14: calls whose domains differ only in scheme prefix, trailing slash or
\* letter case fetch the same manifest URL, report the same Result.domain
\* (the normal form) and share one cache entry.
C14_OneEntryPerDomain ==
    /\ valOutcome.how = "fetched"
          => /\ valOutcome.result.domain = CanonicalDomain(valOutcome.domain)
             /\ valOutcome.result.source \in
                    {NoSource, <<"https://">> \o CanonicalDomain(valOutcome.domain)
                                   \o <<"/.well-known/adagents.json">>}
    /\ \A k1, k2 \in DOMAIN valCache :
          (/\ CanonicalDomain(valCache[k1].value.domain)
                 = CanonicalDomain(valCache[k2].value.domain)
           /\ valCache[k1].value.agent_url = valCache[k2].value.agent_url)
              => k1 = k2

(***************************************************************************)
(* The publisher tracker's claims.                                         *)
(***************************************************************************)
\* the number of expected agents found in a status's authorized_agents
FoundExpected(status) ==
    Cardinality({i \in 1..Len(status.expected_agents) :
                    \E j \in 1..Len(status.authorized_agents) :
                        /\ status.authorized_agents[j].isString
                        /\ status.authorized_agents[j].value = status.expected_agents[i]})

\* round(100 * found / total) in exact arithmetic, halves upwards
RoundedShare(found, total) ==
    IF total = 0 THEN 0 ELSE (200 * found + total) \div (2 * total)

\* C15: coverage_percentage is round(100 * found / |expected|) for the
\* expected agents found in authorized_agents, 0 when expected is empty, and
\* an integer of 0..100.
C15_CoverageIsRoundedShare ==
    pubOutcome.how = "fetched"
        => /\ pubOutcome.status.coverage_percentage
                 = RoundedShare(FoundExpected(pubOutcome.status),
                                Len(pubOutcome.status.expected_agents))
           /\ pubOutcome.status.coverage_percentage \in 0..100

\* the served manifest with one more authorized_agents entry
WithAgent(response, entry) ==
    Json(Manifest(response.data.agents, Append(response.data.list, entry),
                  response.data.schema, response.data.properties,
                  response.data.last_updated))

\* C16: for a fixed expected list, a fresh checkPublisher of the manifest
\* with one more authorized agent that is an expected one reports a coverage
\* no lower than that of the manifest as it was.
C16_CoverageMonotonic ==
    pubOutcome.how = "fetched"
        => \A i \in 1..Len(pubOutcome.call.expectedAgents) :
             \A entry \in {EntryObj(pubOutcome.call.expectedAgents[i]),
                            EntryStr(pubOutcome.call.expectedAgents[i])} :
                checkPublisher(pubOutcome.call,
                               WithAgent(pubOutcome.response, entry)).coverage_percentage
                    >= pubOutcome.status.coverage_percentage

\* one of three expected agents was listed (33), and listing a second one
\* gives 67
C16_Witness ==
    /\ pubOutcome.how = "fetched"
    /\ Len(pubOutcome.call.expectedAgents) = 3
    /\ pubOutcome.status.coverage_percentage = 33
    /\ checkPublisher(pubOutcome.call,
                      WithAgent(pubOutcome.response, EntryObj(AgentUrl(2)))).coverage_percentage
           = 67

\* the body parsed to an object whose authorized_agents is an array
HasAgentsArray(response) ==
    response.kind = "json" /\ ~response.data.isNull /\ response.data.agents = "array"

\* authorized_agents is a flat array of strings
FlatStrings(response) ==
    /\ HasAgentsArray(response)
    /\ Len(response.data.list) > 0
    /\ \A i \in 1..Len(response.data.list) : response.data.list[i].kind = "string"

HasIssue(status, severity, message) ==
    \E i \in 1..Len(status.issues) :
        status.issues[i].severity = severity /\ status.issues[i].message = message

\* C17: a manifest whose authorized_agents is a flat array of strings gets
\* deployment_status "schema_outdated" and an issue naming the old string
\* format, whatever its other fields are.
C17_FlatStringsOutdated ==
    (pubOutcome.how = "fetched" /\ FlatStrings(pubOutcome.response))
        => /\ pubOutcome.status.deployment_status = "schema_outdated"
           /\ HasIssue(pubOutcome.status, "warning",
                       "Using old string format for authorized_agents")

\* a flat-string manifest whose properties is not an array, which is an error
\* of its own, came back as schema_outdated
C17_Witness ==
    /\ pubOutcome.how = "fetched"
    /\ FlatStrings(pubOutcome.response)
    /\ pubOutcome.response.data.properties = "not-array"
    /\ pubOutcome.status.deployment_status = "schema_outdated"

\* C18: HTTP 404 for the manifest gives deployment_status "missing", no
\* authorized agents and coverage 0.
C18_NotFoundIsMissing ==
    (pubOutcome.how = "fetched" /\ pubOutcome.response = HttpError(404))
        => /\ pubOutcome.status.deployment_status = "missing"
           /\ pubOutcome.status.authorized_agents = <<>>
           /\ pubOutcome.status.coverage_percentage = 0

\* a 404 answered a check that expected agents
C18_Witness ==
    /\ pubOutcome.how = "fetched"
    /\ pubOutcome.response = HttpError(404)
    /\ pubOutcome.call.expectedAgents # <<>>
    /\ pubOutcome.status.deployment_status = "missing"

\* authorized_agents is an array of objects each with a url (so no entry is
\* a string) and properties is an array
WellFormed(response) ==
    /\ HasAgentsArray(response)
    /\ \A i \in 1..Len(response.data.list) : response.data.list[i].kind = "object"
    /\ response.data.properties = "array"

\* C19: for a 2xx JSON response, deployment_status is "deployed" exactly when
\* authorized_agents is an array of objects each having a url, properties is
\* an array and no authorized_agents entry is a plain string.
C19_DeployedIffWellFormed ==
    (pubOutcome.how = "fetched" /\ pubOutcome.response.kind = "json")
        => (pubOutcome.status.deployment_status = "deployed"
               <=> WellFormed(pubOutcome.response))

\* a well-formed manifest without $schema and last_updated is deployed
C19_Witness ==
    /\ pubOutcome.how = "fetched"
    /\ WellFormed(pubOutcome.response)
    /\ Len(pubOutcome.response.data.list) = MaxEntries
    /\ ~pubOutcome.response.data.schema
    /\ pubOutcome.status.deployment_status = "deployed"

HasError(status) ==
    \E i \in 1..Len(status.issues) : status.issues[i].severity = "error"

\* C20, as stated: deployment_status is "deployed" exactly when the issues
\* hold no error-severity issue; a status with warnings only is deployed.
C20_DeployedIffNoError ==
    pubOutcome.how = "fetched"
        => (pubOutcome.status.deployment_status = "deployed" <=> ~HasError(pubOutcome.status))

\* the two warnings that report an outdated schema
HasOldSchemaWarning(status) ==
    \/ HasIssue(status, "warning", "Using old string format for authorized_agents")
    \/ HasIssue(status, "warning", "Missing 'properties' array (new AdCP v2 protocol)")

\* C20, amended: every error-severity issue blocks "deployed", and of the
\* warnings only the two that report an outdated schema do: the status is
\* "deployed" exactly when there is no error issue and neither of those two.
C20_ErrorsAndOldSchemaBlock ==
    pubOutcome.how = "fetched"
        => (pubOutcome.status.deployment_status = "deployed"
               <=> (~HasError(pubOutcome.status) /\ ~HasOldSchemaWarning(pubOutcome.status)))

\* a deployed status that carries the $schema, last_updated and
\* missing-agents warnings
C20_Witness ==
    /\ pubOutcome.how = "fetched"
    /\ pubOutcome.status.deployment_status = "deployed"
    /\ HasIssue(pubOutcome.status, "warning", "Missing $schema field")
    /\ HasIssue(pubOutcome.status, "warning", "Missing 'last_updated' field")
    /\ Len(pubOutcome.status.issues) = 3

\* the manifest was served with a wrong content type, did not parse, or
\* parsed to an object whose authorized_agents is absent or not an array
StructurallyInvalid(response) ==
    \/ response.kind \in {"not-json", "unparseable"}
    \/ response.kind = "json" /\ ~response.data.isNull /\ response.data.agents # "array"

\* C21: a manifest with a wrong content type, malformed JSON or a missing or
\* non-array authorized_agents gets deployment_status "error", whether or not
\* it has a properties field.
C21_InvalidIsError ==
    (pubOutcome.how = "fetched" /\ StructurallyInvalid(pubOutcome.response))
        => pubOutcome.status.deployment_status = "error"

\* the expected agents a status does not list, in the order they are expected
NotFound(status) ==
    SelectSeq(status.expected_agents,
              LAMBDA e : ~\E j \in 1..Len(status.authorized_agents) :
                             /\ status.authorized_agents[j].isString
                             /\ status.authorized_agents[j].value = e)

RECURSIVE Spelled(_)
Spelled(pieces) == IF Len(pieces) = 0 THEN "" ELSE pieces[1] \o Spelled(Tail(pieces))

RECURSIVE Listed(_)
\* the agents of a list, separated by commas
Listed(urls) ==
    IF Len(urls) = 0 THEN ""
    ELSE Spelled(urls[1]) \o (IF Len(urls) > 1 THEN ", " \o Listed(Tail(urls)) ELSE "")

\* the warnings validateSchema gives
SchemaWarnings ==
    {"Missing $schema field", "Using old string format for authorized_agents",
     "Missing 'properties' array (new AdCP v2 protocol)", "Missing 'last_updated' field"}

\* the warnings of a status that report missing expected agents
MissingWarnings(status) ==
    {i \in 1..Len(status.issues) :
        /\ status.issues[i].severity = "warning"
        /\ status.issues[i].message \notin SchemaWarnings}

\* C22: when some expected agent is not among the authorized agents, the
\* status of an uncached checkPublisher carries exactly one warning, which
\* lists every such agent; when none is missing it carries no such warning.
C22_MissingAgentsWarned ==
    pubOutcome.how = "fetched"
        => IF Len(NotFound(pubOutcome.status)) > 0
           THEN /\ Cardinality(MissingWarnings(pubOutcome.status)) = 1
                /\ HasIssue(pubOutcome.status, "warning",
                            "Missing " \o ToString(Len(NotFound(pubOutcome.status)))
                                \o " expected agent(s): "
                                \o Listed(NotFound(pubOutcome.status)))
           ELSE MissingWarnings(pubOutcome.status) = {}

(***************************************************************************)
(* trackPublishers' claims.                                                *)
(***************************************************************************)
\* the hostname a URL names, or "" when it does not parse as a URL
HostOf(url) ==
    IF Len(url) > 1 /\ url[1] \in {"https://", "http://"} THEN ToLowerCase(url[2]) ELSE ""

\* the hostnames of the sales agents of a list
SalesHosts(agents) ==
    {HostOf(agents[i].url) : i \in {i \in 1..Len(agents) : agents[i].type = "sales"}} \ {""}

\* the URLs of the sales agents of one hostname, in the list's order
SalesUrlsOf(agents, host) ==
    LET picked == SelectSeq(agents, LAMBDA a : a.type = "sales" /\ HostOf(a.url) = host)
    IN [i \in 1..Len(picked) |-> picked[i].url]

\* C23: what trackPublishers returns has exactly one status per hostname of
\* a sales agent, each from checkPublisher(hostname, all sales-agent URLs of
\* that hostname); other agent types and unparseable URLs give no entry.
C23_OneStatusPerSalesHost ==
    [][TrackResolves
          => /\ DOMAIN tracking.statuses = {<<h>> : h \in SalesHosts(tracking.agents)}
             /\ DOMAIN tracking.calls = DOMAIN tracking.statuses
             /\ \A h \in SalesHosts(tracking.agents) :
                   /\ tracking.calls[<<h>>] = SalesUrlsOf(tracking.agents, h)
                   /\ tracking.statuses[<<h>>].domain = <<h>>]_vars

\* a batch over sales agents of two hostnames, a creative agent and an
\* unparseable URL is about to return, one status fetched with both URLs of
\* the first hostname as expected agents
C23_Witness ==
    /\ tracking # NoBatch
    /\ tracking.waiting = {}
    /\ Len(tracking.agents) = 5
    /\ Cardinality(DOMAIN tracking.statuses) = 2
    /\ tracking.statuses[<<"sales.example.com">>].expected_agents
           = <<SalesOne.url, SalesOneMcp.url>>

\* the fetch failed, or what it fetched cannot be read as a manifest
FailingFetch(response) ==
    \/ response.kind \in {"rejected", "http", "not-json", "unparseable"}
    \/ response.kind = "json"
         /\ (response.data.isNull \/ response.data.agents = "not-array"
               \/ \E i \in 1..Len(response.data.list) : response.data.list[i] = EntryNull)

\* C24: checkPublisher returns a status for every fetch outcome and manifest
\* content, with an error issue when the fetch or the manifest failed; so
\* every trackPublishers batch returns, with a status for every one of its
\* domains.
C24_BatchAlwaysResolves ==
    /\ [][(\E i \in 1..Len(pubFetches), response \in BatchResponses :
               PublisherSettles(i, response))
            => /\ pubOutcome'.how = "fetched"
               /\ pubOutcome'.status.domain = pubOutcome'.call.domain
               /\ FailingFetch(pubOutcome'.response) => HasError(pubOutcome'.status)
               /\ pubOutcome'.call.batch
                     => /\ pubOutcome'.call.domain \in DOMAIN tracking'.statuses
                        /\ tracking'.statuses[pubOutcome'.call.domain] = pubOutcome'.status]_vars
    /\ [][TrackResolves => DOMAIN tracking.statuses = DOMAIN tracking.calls]_vars
    /\ (tracking # NoBatch) ~> (tracking = NoBatch)

\* a batch over two domains is about to return although one fetch was
\* rejected and the other manifest was JSON null: both statuses carry an
\* error issue
C24_Witness ==
    /\ tracking # NoBatch
    /\ tracking.waiting = {}
    /\ Cardinality(DOMAIN tracking.statuses) = 2
    /\ \A d \in DOMAIN tracking.statuses :
          /\ tracking.statuses[d].deployment_status = "error"
          /\ HasError(tracking.statuses[d])
    /\ \E d \in DOMAIN tracking.statuses :
          HasIssue(tracking.statuses[d], "error", "Failed to fetch: " \o ErrNullContent.message)
    /\ \E d \in DOMAIN tracking.statuses :
          HasIssue(tracking.statuses[d], "error", "Failed to fetch: " \o ErrFetchFailed.message)

(***************************************************************************)
(* The Cache's claims.                                                     *)
(***************************************************************************)
\* the entry of k was set within the last TTL
Unexpired(k) == k \in DOMAIN cacheEntries /\ now <= cacheEntries[k].expiresAt

\* a step leaves the entry of k as it is
SameEntry(k) ==
    /\ (k \in DOMAIN cacheEntries') = (k \in DOMAIN cacheEntries)
    /\ k \in DOMAIN cacheEntries => cacheEntries'[k] = cacheEntries[k]

\* C25: set(k, v) stores v with an expiry one TTL after the time of the set,
\* whether or not k had an entry; get(k) returns the stored value while the
\* entry is unexpired and leaves it, and misses and removes the entry once
\* it is expired; nothing but a set(k, .), a clear() or a get/has(k) of the
\* expired entry changes the entry of k.
C25_CacheExpiry ==
    [][\A k \in CacheKeys :
          /\ \A v \in CacheValues :
                 Set(k, v) => cacheEntries'[k] = [value |-> v, expiresAt |-> now + ttlMs]
          /\ Get(k) => IF Unexpired(k)
                       THEN /\ cacheResult'.returned = cacheEntries[k].value
                            /\ cacheEntries' = cacheEntries
                       ELSE /\ cacheResult'.returned = Undefined
                            /\ k \notin DOMAIN cacheEntries'
          /\ ~SameEntry(k)
                 => \/ \E v \in CacheValues : Set(k, v)
                    \/ CacheClear
                    \/ ~Unexpired(k) /\ (Get(k) \/ Has(k))]_vars

\* get has just returned the value of an entry at the very time it expires
\* (it was set one TTL ago), while an entry set earlier has expired and is
\* still stored
C25_Witness ==
    /\ now = 2
    /\ cacheResult.op = "get"
    /\ cacheResult.returned = "v2"
    /\ cacheEntries[cacheResult.key].expiresAt = 2
    /\ \E k \in DOMAIN cacheEntries : now > cacheEntries[k].expiresAt

(***************************************************************************)
(* clear and getStats.                                                     *)
(***************************************************************************)
\* C26: right after clear(), getAgentAuthorizations gives every agent no
\* properties, findAgentsForProperty finds nothing for any identifier, and
\* getStats reports 0 agents, 0 properties and 0 identifiers.
C26_ClearEmptiesBothMaps ==
    [][Clear
         => /\ \A agentUrl \in Agents : getAgentAuthorizations(agentUrl)'.properties = <<>>
            /\ \A id \in Identifiers : findAgentsForProperty(id.type, id.value)' = <<>>
            /\ getStats(agentProperties', propertyToAgents')
                   = [totalAgents |-> 0, totalProperties |-> 0, totalIdentifiers |-> 0]
            /\ agentProperties' = EmptyMap
            /\ propertyToAgents' = EmptyMap]_vars

\* clear() has just run and nothing is found or counted
C26_Witness ==
    /\ indexCall = "clear"
    /\ getStats(agentProperties, propertyToAgents).totalIdentifiers = 0
    /\ \A id \in Identifiers : findAgentsForProperty(id.type, id.value) = <<>>

\* the "<type>:<value>" identifiers that the properties of the current claim
\* sets carry
ClaimedKeys ==
    {Key(id.type, id.value) :
        id \in {id \in Identifiers :
                   \E agentUrl \in DOMAIN agentProperties :
                       \E i \in 1..Len(agentProperties[agentUrl]) :
                           id \in Range(agentProperties[agentUrl][i].identifiers)}}

\* C27: getStats reports the number of agents with a claim set, the sum of
\* the sizes of the current claim sets, and the number of distinct
\* "<type>:<value>" identifiers that properties of the current claim sets
\* carry.
C27_StatsCountCurrentClaims ==
    getStats(agentProperties, propertyToAgents)
        = [totalAgents |-> Cardinality({a \in Agents : a \in DOMAIN agentProperties}),
           totalProperties |-> SumOfClaims({a \in Agents : a \in DOMAIN agentProperties}),
           totalIdentifiers |-> Cardinality(ClaimedKeys)]

(***************************************************************************)
(* FormatsService's claims.                                                *)
(***************************************************************************)
\* a getFormatsForAgent for the URL has completed and its TTL has not elapsed
ProfileStored(url) ==
    url \in DOMAIN formatsCache /\ now - formatsCache[url].last_fetched < FORMATS_TTL_MS

\* C28: a completed getFormatsForAgent stores the profile it returns under
\* the agent's URL, and a getFormatsForAgent for that URL made within the
\* TTL returns the stored profile without calling the remote agent.
C28_FormatsCached ==
    [][/\ Len(formatsCalls') < Len(formatsCalls)     \* a call has completed
              => /\ formatsOutcome'.how = "fetched"
                 /\ formatsOutcome'.agent \in Range(formatsCalls)
                 /\ formatsCache'[formatsOutcome'.agent.url] = formatsOutcome'.profile
                 /\ formatsOutcome'.profile.last_fetched = now
       /\ \A agent \in FormatAgents :
              (ProfileStored(agent.url) /\ GetFormatsForAgent(agent))
                  => /\ formatsCalls' = formatsCalls
                     /\ formatsOutcome'.how = "cached"
                     /\ formatsOutcome'.profile = formatsCache[agent.url]
                     /\ formatsCache' = formatsCache]_vars

\* a second getFormatsForAgent has been answered from the cache with the
\* formats of the first, and no call to the agent is pending
C28_Witness ==
    /\ formatsOutcome.how = "cached"
    /\ formatsCalls = <<>>
    /\ Len(formatsOutcome.profile.formats) = 2
    /\ formatsOutcome.profile = formatsCache[formatsOutcome.agent.url]
    /\ formatsOutcome.profile.last_fetched = now

\* what a rejected executeTask is rejected with
TaskErrors == {ErrNoTool}

\* C29: getFormatsForAgent returns a profile whatever the agent's call does:
\* formats = [] and an error containing "Agent returned error" when the call
\* resolves with success = false, formats = [] and an error containing
\* "does not support list_creative_formats" when the call rejects.
C29_FormatsFailureIsReported ==
    /\ formatsOutcome.how # "rejected"
    /\ formatsOutcome.how = "fetched"
          => /\ (formatsOutcome.result.kind = "resolved" /\ ~formatsOutcome.result.success)
                    => /\ formatsOutcome.profile.formats = <<>>
                       /\ \E reason \in {"Agent offline", "Unknown error"} :
                              formatsOutcome.profile.error
                                  = "Agent returned error: " \o reason
             /\ formatsOutcome.result.kind = "rejected"
                    => /\ formatsOutcome.profile.formats = <<>>
                       /\ \E e \in TaskErrors :
                              formatsOutcome.profile.error
                                  = "Agent does not support list_creative_formats: "
                                        \o e.message

\* both failures have been reported: the latest call was rejected and the
\* profile cached for the other agent holds the error of a call that
\* resolved with success = false
C29_Witness ==
    /\ formatsOutcome.how = "fetched"
    /\ formatsOutcome.result = TaskRejected(ErrNoTool)
    /\ formatsOutcome.profile.error
           = "Agent does not support list_creative_formats: Tool not found"
    /\ \E url \in DOMAIN formatsCache :
           formatsCache[url].error = "Agent returned error: Agent offline"

(***************************************************************************)
(* The Registry's claim.                                                   *)
(***************************************************************************)
\* C30: every agent that listAgents(T) returns has type T.
C30_ListedHaveTheType ==
    listed.type \in Range(AgentTypes)
        => \A i \in 1..Len(listed.agents) : listed.agents[i].type = listed.type

(***************************************************************************)
(* Properties without identifiers, and the order of installs.              *)
(***************************************************************************)
\* the "<type>:<value>" keys of the identifiers a property list carries
KeysOf(properties) ==
    {Key(id.type, id.value) :
        id \in UNION {Range(properties[i].identifiers) : i \in 1..Len(properties)}}

\* the matches of every identifier
AllMatches ==
    UNION {Range(findAgentsForProperty(id.type, id.value)) : id \in Identifiers}

\* C31: a property without identifiers stays in the claim set its agent
\* installs and is counted in totalProperties; an install adds to the reverse
\* index only the keys of the identifiers its properties carry, so such a
\* property adds none; and no findAgentsForProperty returns such a property.
C31_NoIdentifiersForwardOnly ==
    [][\A agentUrl \in Agents, properties \in PropLists :
          AddAgentProperties(agentUrl, properties)
              => /\ agentProperties'[agentUrl] = properties
                 /\ getStats(agentProperties', propertyToAgents').totalProperties
                        = SumOfLengths(agentProperties, DOMAIN agentProperties \ {agentUrl})
                              + Len(properties)
                 /\ DOMAIN propertyToAgents'
                        = DOMAIN propertyToAgents \cup KeysOf(properties)
                 /\ \A match \in AllMatches' : match.property.identifiers # <<>>]_vars

\* an agent claims a property without identifiers next to one with an
\* identifier: both are counted, the reverse index has the one key only
C31_Witness ==
    \E agentUrl \in DOMAIN agentProperties :
        /\ agentProperties[agentUrl] = <<PropBare, PropApp>>
        /\ DOMAIN agentProperties = {agentUrl}
        /\ getStats(agentProperties, propertyToAgents).totalProperties = 2
        /\ DOMAIN propertyToAgents = {Key("app:ios", "1")}
        /\ \A match \in AllMatches : match.property = PropApp

\* the index after installing the claim sets of two agents, one after the other
InstalledBoth(first, firstProperties, second, secondProperties) ==
    LET one == addAgentProperties(agentProperties, propertyToAgents, first, firstProperties)
    IN addAgentProperties(one.agentProperties, one.propertyToAgents, second,
                          secondProperties)

\* a reverse index as the Sets it holds
AsSets(rev) == [key \in DOMAIN rev |-> Range(rev[key])]

\* the matches findAgentsForProperty gives on an index
MatchesOn(idx, id) ==
    Range(MatchesOfAgents(idx.agentProperties,
                          IF Key(id.type, id.value) \in DOMAIN idx.propertyToAgents
                          THEN idx.propertyToAgents[Key(id.type, id.value)] ELSE <<>>,
                          id.type, id.value))

\* C32: from any index state, installing claim sets for two distinct agents
\* in either order gives the same forward map, the same reverse index and,
\* for every identifier, the same set of findAgentsForProperty results.
C32_InstallsCommute ==
    \A pair \in {pair \in SUBSET Agents : Cardinality(pair) = 2}, pa, pb \in PropLists :
        LET a == CHOOSE a \in pair : TRUE
            b == CHOOSE b \in pair : b # a
            ab == InstalledBoth(a, pa, b, pb)
            ba == InstalledBoth(b, pb, a, pa)
        IN /\ ab.agentProperties = ba.agentProperties
           /\ AsSets(ab.propertyToAgents) = AsSets(ba.propertyToAgents)
           /\ \A id \in Identifiers : MatchesOn(ab, id) = MatchesOn(ba, id)

\* two agents were installed one after the other with a shared identifier:
\* the key's Set holds both, the later one last
C32_Witness ==
    /\ DOMAIN agentProperties = Agents
    /\ Key("app:ios", "1") \in DOMAIN propertyToAgents
    /\ propertyToAgents[Key("app:ios", "1")] = <<A2, A1>>
    /\ agentProperties[A1] = <<PropApp>>
    /\ agentProperties[A2] = <<PropSite, PropApp>>
    /\ Cardinality(MatchesFor(A1, IdAppIos) \cup MatchesFor(A2, IdAppIos)) = 2

(***************************************************************************)
(* Failed validations in the validator's cache.                            *)
(***************************************************************************)
\* C33: a validate whose fetch has settled stores its Result, failed or
\* not, for one TTL in place of what was stored; while a failed Result is
\* stored and its TTL has not run out, validate returns it and starts no
\* fetch; once the TTL has run out, validate drops it and starts one fetch.
C33_FailureCachedNoRetry ==
    [][/\ Len(valFetches') < Len(valFetches)
              => /\ Len(valFetches') = Len(valFetches) - 1
                 /\ valOutcome'.how = "fetched"
                 /\ cacheKey(valOutcome'.domain, valOutcome'.agentUrl) \in DOMAIN valCache'
                 /\ valCache'[cacheKey(valOutcome'.domain, valOutcome'.agentUrl)]
                        = [value |-> valOutcome'.result, expiresAt |-> now + ttlMs]
       /\ \A domain \in CacheDomains :
              (/\ cacheKey(domain, UrlSales) \in DOMAIN valCache
               /\ ~valCache[cacheKey(domain, UrlSales)].value.authorized
               /\ Validate(domain, UrlSales))
                  => IF now <= valCache[cacheKey(domain, UrlSales)].expiresAt
                     THEN /\ valFetches' = valFetches
                          /\ valOutcome'.how = "cached"
                          /\ valOutcome'.result = valCache[cacheKey(domain, UrlSales)].value
                          /\ valCache' = valCache
                     ELSE /\ valFetches' = Append(valFetches,
                                               [domain |-> domain, agentUrl |-> UrlSales])
                          /\ cacheKey(domain, UrlSales) \notin DOMAIN valCache'
                          /\ valOutcome' = valOutcome]_vars

\* a validate has been answered with the stored failure of an earlier one,
\* at the end of its TTL, and nothing is being fetched
C33_Witness ==
    /\ valOutcome.how = "cached"
    /\ ~valOutcome.result.authorized
    /\ valOutcome.result.error = "HTTP 404"
    /\ valOutcome.result.checked_at < now
    /\ valFetches = <<>>
    /\ valCache[cacheKey(valOutcome.domain, valOutcome.agentUrl)].value = valOutcome.result

(***************************************************************************)
(* The single-flight guard before any sweep has completed, and after a     *)
(* sweep has failed.                                                       *)
(***************************************************************************)
\* C34: a crawlAllAgents call made while a sweep is in flight and no sweep
\* has completed returns a result with 0 properties, 0 successful agents,
\* 0 failed agents and no errors, and leaves lastResult and lastCrawl null.
C34_SkipBeforeFirstResult ==
    [][(crawling /\ lastResult = NoResult /\ CrawlCalled)
          => /\ outcome'.how = "skipped"
             /\ outcome'.value.totalProperties = 0
             /\ outcome'.value.successfulAgents = 0
             /\ outcome'.value.failedAgents = 0
             /\ outcome'.value.errors = <<>>
             /\ lastResult' = NoResult
             /\ lastCrawl' = NoDate]_vars

\* a call was skipped with the empty result while the first sweep, still in
\* flight, had already counted an agent
C34_Witness ==
    /\ crawling
    /\ outcome.how = "skipped"
    /\ outcome.value = emptyResult
    /\ lastResult = NoResult
    /\ lastCrawl = NoDate
    /\ Len(inflight) = 1
    /\ inflight[1].result.successfulAgents > 0

\* C35: when the pending sweep rejects, crawling becomes false and
\* lastResult and lastCrawl stay as they were; and every crawlAllAgents
\* call made while crawling is false, after a failed sweep as well, starts a
\* sweep.
C35_GuardResetOnFailure ==
    [][/\ (\E i \in 1..MaxInFlight : SweepRejects(i))
              => /\ ~crawling'
                 /\ lastResult' = lastResult
                 /\ lastCrawl' = lastCrawl
                 /\ outcome'.how = "rejected"
       /\ (~crawling /\ CrawlCalled)
              => /\ crawling'
                 /\ outcome'.how = "pending"
                 /\ Len(inflight') = Len(inflight) + 1]_vars

\* the second sweep has failed: the guard is open, and the result and the
\* time of the first sweep are still there
C35_Witness ==
    /\ outcome.how = "rejected"
    /\ ~crawling
    /\ inflight = <<>>
    /\ lastResult # NoResult
    /\ lastCrawl # NoDate
    /\ lastCrawl < now

(***************************************************************************)
(* Lazy expiry.                                                            *)
(***************************************************************************)
\* the keys has() would answer true for
KeysHeld == {k \in CacheKeys : CacheGet(cacheEntries, k).hit}

\* the keys whose entry is stored although it has expired
KeysExpired == {k \in DOMAIN cacheEntries : now > cacheEntries[k].expiresAt}

\* C36: an entry leaves the Cache only by clear() or, once expired, by a
\* get or has of its own key; the passing of time removes nothing; and
\* size() counts the expired entries that are still stored along with the
\* keys has() is true for.
C36_ExpiryIsLazy ==
    [][/\ \A k \in DOMAIN cacheEntries :
              k \notin DOMAIN cacheEntries'
                  => \/ CacheClear
                     \/ now > cacheEntries[k].expiresAt /\ (Get(k) \/ Has(k))
       /\ now' # now => cacheEntries' = cacheEntries
       /\ size(cacheEntries') = Cardinality(KeysHeld') + Cardinality(KeysExpired')]_vars

\* both entries have expired and no has() would be true, and size() is
\* still 2
C36_Witness ==
    /\ size(cacheEntries) = 2
    /\ KeysHeld = {}
    /\ KeysExpired = CacheKeys

(***************************************************************************)
(* The tracker's cache.                                                    *)
(***************************************************************************)
\* C37: the status checkPublisher stores under a domain is the one computed
\* for the expected agents of the call that fetched it, and a
\* checkPublisher for that domain made within the TTL starts no fetch and
\* returns that status whatever agents it expects itself.
C37_TrackerCacheKeyedByDomain ==
    [][/\ Len(pubFetches') < Len(pubFetches)
              => /\ pubOutcome'.how = "fetched"
                 /\ pubCache'[pubOutcome'.call.domain] = pubOutcome'.status
                 /\ pubOutcome'.status.expected_agents = pubOutcome'.call.expectedAgents
       /\ \A domain \in PubDomains, expectedAgents \in PubExpected :
              (/\ domain \in DOMAIN pubCache
               /\ now - pubCache[domain].last_checked < CACHE_TTL_MS
               /\ CheckPublisher(domain, expectedAgents))
                  => /\ pubFetches' = pubFetches
                     /\ pubCache' = pubCache
                     /\ pubOutcome'.how = "cached"
                     /\ pubOutcome'.status = pubCache[domain]]_vars

\* a call expecting two agents, one of which the manifest does not list,
\* was answered from the cache with the status computed for a call that
\* expected the listed agent only: full coverage and no warning
C37_Witness ==
    /\ pubOutcome.how = "cached"
    /\ pubOutcome.call.expectedAgents = <<UrlSales, UrlSalesSlash>>
    /\ pubOutcome.status.expected_agents = <<UrlSales>>
    /\ pubOutcome.status.coverage_percentage = 100
    /\ MissingWarnings(pubOutcome.status) = {}
    /\ pubFetches = <<>>

\* the key of validate(DomainPlain, UrlSales) holds no unexpired entry
ColdKey ==
    LET key == cacheKey(DomainPlain, UrlSales)
    IN key \notin DOMAIN valCache \/ Expired(valCache[key])

\* C38: lookups are not coalesced. A validate for a key that is cold while
\* a fetch for that key is pending starts a fetch of its own, and so does a
\* checkPublisher for a domain that is cold while a fetch for it is
\* pending; every fetch that settles overwrites the entry with its own
\* result, so the entry ends as the result of the call that completes last.
C38_LookupsNotCoalesced ==
    [][/\ (/\ ColdKey
           /\ Len(valFetches) > 0
           /\ Validate(DomainPlain, UrlSales))
              => valFetches' = Append(valFetches,
                                      [domain |-> DomainPlain, agentUrl |-> UrlSales])
       /\ \A expectedAgents \in PubExpected :
              (/\ ~CachedFresh(DomainPlain)
               /\ Len(pubFetches) > 0
               /\ CheckPublisher(DomainPlain, expectedAgents))
                  => pubFetches' = Append(pubFetches, PubCall(DomainPlain, expectedAgents))
       /\ Len(valFetches') < Len(valFetches)
              => /\ valOutcome'.how = "fetched"
                 /\ valCache'[cacheKey(DomainPlain, UrlSales)].value = valOutcome'.result
       /\ Len(pubFetches') < Len(pubFetches)
              => /\ pubOutcome'.how = "fetched"
                 /\ pubCache'[DomainPlain] = pubOutcome'.status]_vars

\* on each side the first of two overlapping calls has completed and stored a
\* failure while the fetch of the second is still pending: the clock stands
\* still, so a call made after the first completed would have been served
\* from the cache, and the pending fetch is one started while the first was
\* in flight
C38_Witness ==
    /\ Len(valFetches) = 1
    /\ valFetches[1] = [domain |-> DomainPlain, agentUrl |-> UrlSales]
    /\ cacheKey(DomainPlain, UrlSales) \in DOMAIN valCache
    /\ ~valCache[cacheKey(DomainPlain, UrlSales)].value.authorized
    /\ Len(pubFetches) = 1
    /\ pubFetches[1].domain = DomainPlain
    /\ DomainPlain \in DOMAIN pubCache
    /\ pubCache[DomainPlain].deployment_status = "missing"

\* checkPublisher(domain, [a]) counts a as covered
Covered(status) ==
    status.coverage_percentage = 100 /\ MissingWarnings(status) = {}

\* C39: for one manifest and one agent URL a, validate(domain, a) answers
\* authorized exactly when checkPublisher(domain, [a]) counts a as covered
\* (coverage 100 and no missing-agent warning), also when a and the entry
\* differ by a trailing slash and when the entries are flat strings.
C39_ValidatorTrackerAgree ==
    (/\ valOutcome.how = "fetched"
     /\ pubOutcome.how = "fetched"
     /\ valOutcome.response = pubOutcome.response
     /\ valOutcome.domain = pubOutcome.call.domain
     /\ pubOutcome.call.expectedAgents = <<valOutcome.agentUrl>>)
        => (valOutcome.result.authorized <=> Covered(pubOutcome.status))

SalesA1 == HealthAgent("sales", A1)

\* C40: getStats for a sales agent whose url holds an unexpired entry
\* returns that entry and leaves it as it is, whatever the Property Index
\* holds by then; otherwise it returns the stats computed from the index as
\* it is at the call and stores them until now + TTL. Stats computed before
\* a sweep has installed the agent's properties are empty and stay the
\* answer for the whole TTL, also after the install.
C40_StatsSnapshotUntilExpiry ==
    [][/\ (/\ A1 \in DOMAIN statsCache
           /\ ~Expired(statsCache[A1])
           /\ \E formats \in FormatCounts : GetStats(SalesA1, formats))
              => /\ statsOutcome' = StatsOutcome("cached", SalesA1, statsCache[A1].value)
                 /\ statsCache' = statsCache
       /\ (/\ A1 \notin DOMAIN statsCache \/ Expired(statsCache[A1])
           /\ \E formats \in FormatCounts : GetStats(SalesA1, formats))
              => /\ statsOutcome'.how = "fetched"
                 /\ statsOutcome'.stats.fields =
                        (IF A1 \in DOMAIN agentProperties /\ agentProperties[A1] # <<>>
                         THEN {"property_count", "publishers", "publisher_count"}
                         ELSE {})
                 /\ statsOutcome'.stats.property_count = Len(getAgentAuthorizations(A1).properties)
                 /\ statsCache'[A1] = [value |-> statsOutcome'.stats,
                                       expiresAt |-> now + ttlMs]
       /\ (/\ A1 \in DOMAIN statsCache
           /\ A1 \in DOMAIN statsCache'
           /\ statsCache'[A1] # statsCache[A1])
              => Expired(statsCache[A1])]_vars

\* at the last moment of the TTL of stats computed on the empty index,
\* getStats has answered with those empty stats although the index holds
\* the agent's properties by now
C40_Witness ==
    /\ statsOutcome = StatsOutcome("cached", SalesA1, EmptyStats)
    /\ A1 \in DOMAIN statsCache
    /\ statsCache[A1].value = EmptyStats
    /\ now = statsCache[A1].expiresAt
    /\ A1 \in DOMAIN agentProperties
    /\ Len(agentProperties[A1]) > 0

====
